---- MODULE Spec2Model ----
(***************************************************************************)
(* A model of rocky's elevation/image layer engine:                        *)
(*   - ElevationLayerVector::populateHeightfield (the multi-layer          *)
(*     compositor), as a step machine                  -- specification    *)
(*     Spec;                                                               *)
(*   - ElevationLayer::createHeightfieldInKeyProfile (the single-layer     *)
(*     pipeline) with normalizeNoDataValues and assembleHeightfield        *)
(*                                                     -- SpecPipeline;    *)
(*   - the three parent-walk loops (assembleHeightfield,                   *)
(*     populateHeightfield, assembleImage)             -- SpecWalk.        *)
(*                                                                         *)
(* Floats are modelled by integers.  NO_DATA_VALUE is -FLT_MAX, NaN is a   *)
(* dedicated code that compares false with everything.  A tile key is      *)
(* modelled by its level of detail; -1 is the invalid key.  A raster       *)
(* carries its width and height and its samples px; in Spec the samples    *)
(* are indexed by the sample points of the target tile (heightAt(x, y) at  *)
(* the world position of target cell (c, r)), which for a raster of the    *)
(* target's size and extent are the pixels themselves.                     *)
(***************************************************************************)
EXTENDS Integers, Sequences, FiniteSets, TLC

\* ---------------------------------------------------------------- bounds
\* the longest layer stack of a request
NumLayers == 2
\* the level of detail of the requested key
KeyLevel == 2
\* the target heightfield's width and height
NumColumns == 2
NumRows == 2
\* the number of pixels of a raster in SpecPipeline
NumPixels == 2
\* the most intersecting keys of a requested key
MaxKeys == 2
\* the most source rasters and composite rasters of a run of SpecComposite
MaxRasters == 3
MaxComposites == 3
\* the threads that call into one layer
NumThreads == 2

\* the revisions a layer goes through
MaxRevision == 2

\* the small raster sizes, next to the two sides of the size limit
MaxSize == 3

\* the largest width and height of a GDAL dataset, in pixels
DatasetSize == 2

\* ------------------------------------------------------ program constants
FLT_MAX == 99999
NO_DATA_VALUE == 0 - FLT_MAX
NaN == 88888
MaxDimension == 1024
maxHeightfields == 50

isnan(h) == h = NaN

\* float comparisons: false when an operand is NaN
FLess(a, b) == ~isnan(a) /\ ~isnan(b) /\ a < b

\* float addition: -FLT_MAX absorbs every elevation (|b| is far below half an
\* ulp of FLT_MAX), NaN is contagious
FAdd(a, b) ==
    IF isnan(a) \/ isnan(b) THEN NaN
    ELSE IF a = NO_DATA_VALUE THEN NO_DATA_VALUE
    ELSE a + b

\* equiv(a, b): equality up to an epsilon below the model's unit
equiv(a, b) == ~isnan(a) /\ ~isnan(b) /\ a = b

Max(a, b) == IF a > b THEN a ELSE b
Min(a, b) == IF a < b THEN a ELSE b

\* ------------------------------------------------------------- tile keys
InvalidKey == 0 - 1

KeyValid(level) == level >= 0

\* TileKey::makeParent: the parent of a level-0 key is the invalid key
MakeParent(level) == IF level <= 0 THEN InvalidKey ELSE level - 1

RECURSIVE Pow2(_)
Pow2(n) == IF n <= 0 THEN 1 ELSE 2 * Pow2(n - 1)

\* TileKey::getResolutionForTileSize(size).second: the sample spacing of a
\* tile halves with every level (coarser = numerically larger)
getResolutionForTileSize(level) == Pow2(KeyLevel + 2 - level)

\* TileKey::mapResolution(targetSize, sourceSize): the key itself unless the
\* source tiles are larger than the target, then the ancestor whose samples
\* match the target's spacing (one level up for sizes within a factor two)
mapResolution(level, targetSize, sourceSize) ==
    IF level = 0 \/ targetSize >= sourceSize THEN level ELSE level - 1

\* ---------------------------------------------------------------- rasters
Cells == (0 .. NumColumns - 1) \X (0 .. NumRows - 1)

INVALID == [valid |-> FALSE, width |-> 0, height |-> 0, level |-> InvalidKey,
            px |-> <<>>]

Raster(w, h, level, px) ==
    [valid |-> TRUE, width |-> w, height |-> h, level |-> level, px |-> px]

Status_OK == "NoError"
ResourceUnavailable == "ResourceUnavailable"
GeneralError == "GeneralError"

\* Result<GeoHeightfield>: a status and a value
Result(status, value) == [status |-> status, value |-> value]
StatusOk(res) == res.status = Status_OK
StatusFailed(res) == res.status # Status_OK

\* ----------------------------------------------------------------- layers
\* A layer of the stack (an ElevationLayer and its driver's data):
\*   open          Layer::isOpen()
\*   profileValid  profile().valid()
\*   sameProfile   the request's key is in the layer's profile
\*   offset        ElevationLayer::offset()
\*   minLevel      TileLayer::minLevel()
\*   tileSize      TileLayer::tileSize(), the size of the driver's rasters
\*   bestDrop      bestAvailableTileKey(mappedKey): how many levels above the
\*                 mapped key the best available key lies, -1 when invalid
\*   dataTop       the driver has a raster for every level <= dataTop
\*   pattern       what the driver's rasters hold
\*   noDataValue, minValidValue, maxValidValue   the no-data policy
\*   inExtents     the requested key lies within the layer's data extents
\*   image         the layer is an ImageLayer
Layer(open, offset, minLevel, tileSize, bestDrop, dataTop, pattern) ==
    [open |-> open, profileValid |-> TRUE, sameProfile |-> TRUE,
     offset |-> offset, minLevel |-> minLevel, tileSize |-> tileSize,
     bestDrop |-> bestDrop, dataTop |-> dataTop, pattern |-> pattern,
     noDataValue |-> 0 - 7, minValidValue |-> 0 - 5, maxValidValue |-> 900,
     inExtents |-> TRUE, image |-> FALSE]

\* the sample a layer's data holds where it has any: distinct per stack index
\* and per level
SampleValue(index, level) == 10 * (index + 1) + level

\* the raw samples of the driver's raster for a key of `level`, at the target
\* tile's sample points; FirstCell is the cell of column 0, row 0
FirstCell == <<0, 0>>

DriverPixels(layer, index, level) ==
    [q \in Cells |->
        CASE layer.pattern = "full"  -> SampleValue(index, level)
          [] layer.pattern = "hole"  ->
                IF q = FirstCell THEN layer.noDataValue
                ELSE SampleValue(index, level)
          [] layer.pattern = "only"  ->
                IF q = FirstCell THEN SampleValue(index, level)
                ELSE layer.maxValidValue + 1
          [] layer.pattern = "zero"  ->
                IF q = FirstCell THEN 0 ELSE SampleValue(index, level)
          [] OTHER                   -> layer.minValidValue - 1]

\* createHeightfieldImplementation (the driver): a raster of tileSize x
\* tileSize for a key it has data for, a failed status otherwise
createHeightfieldImplementation(layer, index, level) ==
    IF ~layer.open THEN Result(ResourceUnavailable, INVALID)
    ELSE IF KeyValid(level) /\ level <= layer.dataTop
    THEN Result(Status_OK,
                Raster(layer.tileSize, layer.tileSize, level,
                       DriverPixels(layer, index, level)))
    ELSE Result(ResourceUnavailable, INVALID)

\* TileLayer::isKeyInLegalRange: a valid key at or above the minimum level
\* and within the layer's data range
isKeyInLegalRange(layer, level) ==
    KeyValid(level) /\ level >= layer.minLevel /\ layer.inExtents

\* TileLayer::bestAvailableTileKey(mappedKey)
bestAvailableTileKey(layer, mapped) ==
    IF layer.bestDrop < 0 \/ mapped - layer.bestDrop < 0 THEN InvalidKey
    ELSE mapped - layer.bestDrop

\* ------------------------------------------------- single-layer pipeline
\* faulty variant: the width test of lines 31-34 left out
validateHeightfieldHeightOnly(hf) ==
    /\ hf.valid
    /\ ~(hf.height < 1 \/ hf.height > MaxDimension)

\* validateHeightfield(hf), lines 21-42
validateHeightfield(hf) ==
    /\ hf.valid
    /\ ~(hf.height < 1 \/ hf.height > MaxDimension)
    /\ ~(hf.width < 1 \/ hf.width > MaxDimension)

\* faulty variant: the NaN test left out
IsNoDataExceptNaN(layer, h) ==
    \/ equiv(h, layer.noDataValue)
    \/ FLess(h, layer.minValidValue)
    \/ FLess(layer.maxValidValue, h)

\* the test of normalizeNoDataValues on one sample
IsNoData(layer, h) ==
    \/ isnan(h)
    \/ equiv(h, layer.noDataValue)
    \/ FLess(h, layer.minValidValue)
    \/ FLess(layer.maxValidValue, h)

NormalizePixel(layer, h) == IF IsNoData(layer, h) THEN NO_DATA_VALUE ELSE h

\* faulty variant: the loop stops after the first sample it replaces
normalizeFirstNoDataValue(layer, hf) ==
    IF ~hf.valid THEN hf
    ELSE LET bad == {i \in DOMAIN hf.px :
                        /\ hf.px[i] # NO_DATA_VALUE
                        /\ NormalizePixel(layer, hf.px[i]) = NO_DATA_VALUE}
         IN  IF bad = {} THEN hf
             ELSE LET first == CHOOSE i \in bad : \A j \in bad : i <= j
                  IN  [hf EXCEPT !.px[first] = NO_DATA_VALUE]

\* lines 195-214
normalizeNoDataValues(layer, hf) ==
    IF ~hf.valid THEN hf
    ELSE [hf EXCEPT !.px = [q \in DOMAIN hf.px |-> NormalizePixel(layer, hf.px[q])]]

\* the early returns without the legal-range return of lines 443-446
PipelineGuardRangeUnchecked(layer, level) ==
    IF ~layer.profileValid \/ ~layer.open
    THEN Result(ResourceUnavailable, INVALID)
    ELSE Result("go", INVALID)

\* the early returns without the profile test of line 436
PipelineGuardProfileUnchecked(layer, level) ==
    IF ~layer.open THEN Result(ResourceUnavailable, INVALID)
    ELSE IF ~isKeyInLegalRange(layer, level)
    THEN Result(Status_OK, INVALID)
    ELSE Result("go", INVALID)

\* createHeightfieldInKeyProfile, lines 436-446: the early returns; "go" when
\* the call goes on to acquire a raster
PipelineGuard(layer, level) ==
    IF ~layer.profileValid \/ ~layer.open
    THEN Result(ResourceUnavailable, INVALID)
    ELSE IF ~isKeyInLegalRange(layer, level)
    THEN Result(Status_OK, INVALID)
    ELSE Result("go", INVALID)

\* lines 464-491: what the call returns once a raster `hf` (INVALID for none)
\* has been acquired
PipelineFinish(layer, hf, canceled) ==
    IF canceled THEN Result(Status_OK, INVALID)
    ELSE IF hf.valid /\ ~validateHeightfield(hf)
    THEN Result(GeneralError, INVALID)
    ELSE IF ~hf.valid THEN Result(Status_OK, INVALID)
    ELSE Result(Status_OK, normalizeNoDataValues(layer, hf))

\* createHeightfieldInKeyProfile for a key in the layer's profile, given the
\* driver's answer `drv` for the key
createHeightfieldInKeyProfile(layer, level, drv, canceled) ==
    LET g == PipelineGuard(layer, level) IN
    IF g.status # "go" THEN g
    ELSE IF StatusFailed(drv) THEN drv
    ELSE PipelineFinish(layer, drv.value, canceled)

\* createHeightfield(key, io)
createHeightfield(layer, index, level, canceled) ==
    IF ~layer.open THEN Result(Status_OK, INVALID)
    ELSE createHeightfieldInKeyProfile(
            layer, level, createHeightfieldImplementation(layer, index, level),
            canceled)

\* ------------------------------------------- populateHeightfield: state
VARIABLES
    layers,                 \* the ElevationLayerVector, lowest priority first
    hf,                     \* the target heightfield, cell -> height
    resolutions,            \* the resolutions output, cell -> resolution
    wantResolutions,        \* the caller passed a resolutions vector
    canceled,               \* io.canceled()
    pc,                     \* where the request is
    contenders, offsets,    \* LayerDataVectors
    numFallbackLayers,
    heightfields, heightfieldActualKeys, heightFallback, heightFailed,
    offsetfields, offsetFailed, numHeightfieldsInCache,
    c, r, oi,               \* column, row, offset loop index
    ci,                     \* contender loop index, from 1
    resolvedIndex, resolution, realData,
    requiresResample,
    ret,                    \* the returned value, "none" while running
    hfBefore,               \* history: the target as the caller passed it
    calls,                  \* history: the createHeightfield calls made
    cellLog                 \* history: what each finished cell received

popVars == <<layers, hf, resolutions, wantResolutions, canceled, pc,
             contenders, offsets, numFallbackLayers, heightfields,
             heightfieldActualKeys, heightFallback, heightFailed,
             offsetfields, offsetFailed, numHeightfieldsInCache, c, r, oi,
             ci, resolvedIndex, resolution, realData, requiresResample,
             ret, hfBefore, calls, cellLog>>

\* ------------------------------------------- single-layer pipeline: state
VARIABLES
    pLayer,                 \* the layer the pipeline is called on
    pKey,                   \* the requested key
    pDriver,                \* the driver: its answer for the key, the size
                            \* of its rasters, whether it hands out one
                            \* raster object again and again, its data levels
    pStore,                 \* the samples of the raster the driver holds
    pMosaic,                \* key.getIntersectingKeys(profile()): how many
                            \* keys, and their level
    pBuild,                 \* how the build treats the write past the end
                            \* of the points vector (line 319, 336)
    pCanceled,              \* io.canceled()
    ppc,                    \* where the current call is
    pHf,                    \* the raster the call acquired
    pAcquired,              \* history: the raster as acquired, before
                            \* post-processing
    pResults,               \* history: what each finished call returned
    pLayers,                \* history: the layer at each finished call
    pDriverCalls            \* history: how often each call invoked the driver

pipeVars == <<pLayer, pKey, pDriver, pStore, pMosaic, pBuild, pCanceled, ppc,
              pHf, pAcquired, pResults, pLayers, pDriverCalls>>

\* ------------------------------------------------ parent walks: state
VARIABLES
    wLoop,                  \* which loop runs
    wLayer,                 \* the layer walked
    wStart,                 \* the level of the starting key
    wKey,                   \* subKey / actualKey / currentKey
    wOk,                    \* subTile.status.ok() / layerHF.valid()
    wAttempts,              \* history: the fetch attempts (iterations) made
    wKeys,                  \* intersectingKeys (assembleImage)
    wTiles,                 \* numTilesThatMayHaveData (assembleImage)
    wCanceled,              \* io.canceled()
    wpc                     \* "loop", "exited" or "returned"

walkVars == <<wLoop, wLayer, wStart, wKey, wOk, wAttempts, wKeys, wTiles,
              wCanceled, wpc>>

\* ------------------------------------------------ mosaic assembler: state
VARIABLES
    mKind,                  \* "heightfield" (assembleHeightfield) or "image"
    mLayer,                 \* the layer
    mKey,                   \* the level of the requested key
    mMosaic,                \* how the key maps to the layer's profile
    mTiles,                 \* heightfield: what the driver holds per key
    mDriver,                \* image: the driver
    mBuild,                 \* "checked" or "unchecked" element access
    mCanceled,              \* io.canceled()
    mpc,                    \* where the assembler is
    intersectingKeys,       \* the levels of the intersecting keys
    mIdx,                   \* index of the key being fetched
    mSubKey,                 \* heightfield: the key the walk is at
    mSources,                \* the mSources collected
    hasAtLeastOneSourceAtTargetLOD,
    mCached,                \* image: keys the dependency cache answers for
    mOutput                  \* the mosaic, then what the assembler returns

mosaicVars == <<mKind, mLayer, mKey, mMosaic, mTiles, mDriver, mBuild,
                mCanceled, mpc, intersectingKeys, mIdx, mSubKey, mSources,
                hasAtLeastOneSourceAtTargetLOD, mCached, mOutput>>

\* ------------------------------------------------ composite rasters: state
VARIABLES
    cKind,                  \* "heightfield" (HeightfieldMosaic) or "image"
    cCacheAlive,            \* the layer's _dependencyCache still exists
    cCache,                 \* the dependency cache: key -> raster (0: none)
    cRasters,               \* the source rasters and their reference counts
    cComposites,            \* the composite rasters
    cCleaned,               \* clean() has run
    cTerminated             \* std::terminate was called

compVars == <<cKind, cCacheAlive, cCache, cRasters, cComposites, cCleaned,
              cTerminated>>

\* ------------------------------------------- a layer and its threads: state
VARIABLES
    lKind,                  \* "elevation" (ElevationLayer) or "image"
    lOpenAutomatically,     \* Layer::openAutomatically() at construction
    lWritingSupported,      \* isWritingSupported()
    lWritingRequested,      \* isWritingRequested()
    lStatus,                \* Layer::_status
    lShared,                \* the threads that hold _state_mutex shared
    lExclusive,             \* the thread that holds it exclusively, 0: none
    lThread,                \* per thread: where it is and what it got back
    lRaster,                \* the raster passed to the write operations
    lClosed                 \* history: a close() has closed the layer

layerVars == <<lKind, lOpenAutomatically, lWritingSupported,
               lWritingRequested, lStatus, lShared, lExclusive, lThread,
               lRaster, lClosed>>

\* ------------------------------------ a layer's properties and revision
VARIABLES
    fOffset,                \* ElevationLayer::_offset
    fNoDataValue,           \* ElevationLayer::_noDataValue
    fMinValidValue,         \* ElevationLayer::_minValidValue
    fMaxValidValue,         \* ElevationLayer::_maxValidValue
    fEncoding,              \* ElevationLayer::_encoding
    fOpenAutomatically,     \* Layer::_openAutomatically
    fAttribution,           \* Layer::_attribution
    fReopenRequired,        \* _reopenRequired
    fRevision               \* Layer::_revision

propVars == <<fOffset, fNoDataValue, fMinValidValue, fMaxValidValue,
              fEncoding, fOpenAutomatically, fAttribution, fReopenRequired,
              fRevision>>

\* ------------------------- a GDAL elevation layer and its threads: state
VARIABLES
    gStatus,                \* Layer::_status
    gShared,                \* the threads that hold _state_mutex shared
    gExclusive,             \* the thread that holds it exclusively, 0: none
    gThread,                \* per thread: where it is and what it got back
    gHandle                 \* _drivers: per thread, its GDAL::Driver

gdalVars == <<gStatus, gShared, gExclusive, gThread, gHandle>>

\* --------------------------------------- the sample spacing of a raster
VARIABLES
    sWidth,                 \* hf->width(), or the mosaic's width
    sHeight,                \* hf->height(), or the mosaic's height
    sExtent,                \* key.extent(): its width and height
    sPc,                    \* "new", "rejected", "valid", "spaced"
    sDx,                    \* dx: divisor and quotient
    sDy                     \* dy: divisor and quotient

spacingVars == <<sWidth, sHeight, sExtent, sPc, sDx, sDy>>

\* ------------------------------------ the read window of a GDAL driver
VARIABLES
    dLevel,                 \* key.getLevelOfDetail()
    dCanceled,              \* io.canceled()
    dIntersects,            \* intersection.valid()
    dRaster,                \* rasterWidth and rasterHeight of the dataset
    dSource,                \* src_min_x, src_min_y, src_max_x, src_max_y
    dTarget,                \* target_width and target_height
    dPc,                    \* "call", "window", "returned"
    dWindow,                \* off_x, off_y, width and height
    dResult                 \* "none", "empty", "read"

windowVars == <<dLevel, dCanceled, dIntersects, dRaster, dSource, dTarget,
                dPc, dWindow, dResult>>

\* the layers a stack is drawn from
LayerKinds == {
    \* a layer that is not open
    Layer(FALSE, FALSE, 0, NumColumns, 0, KeyLevel, "full"),
    \* a layer whose minimum level is above the requested key
    Layer(TRUE, FALSE, KeyLevel + 1, NumColumns, 0, KeyLevel, "full"),
    \* a layer with no best available key
    Layer(TRUE, FALSE, 0, NumColumns, 0 - 1, KeyLevel, "full"),
    \* contenders with data at the requested level
    Layer(TRUE, FALSE, 0, NumColumns, 0, KeyLevel, "full"),
    Layer(TRUE, FALSE, 0, NumColumns, 0, KeyLevel, "hole"),
    Layer(TRUE, FALSE, 0, NumColumns, 0, KeyLevel, "only"),
    Layer(TRUE, FALSE, 0, NumColumns, 0, KeyLevel, "empty"),
    \* a contender whose driver only has data at the root
    Layer(TRUE, FALSE, 0, NumColumns, 0, 0, "full"),
    \* a contender whose best available key is an ancestor
    Layer(TRUE, FALSE, 0, NumColumns, 1, KeyLevel - 1, "full"),
    \* a contender whose driver has no data at all; legal from level 1
    Layer(TRUE, FALSE, 1, NumColumns, 0, 0 - 1, "full"),
    \* a contender with larger tiles than the target
    Layer(TRUE, FALSE, 0, NumColumns + 1, 0, KeyLevel, "full"),
    \* offset layers
    Layer(TRUE, TRUE, 0, NumColumns, 0, KeyLevel, "full"),
    Layer(TRUE, TRUE, 0, NumColumns, 0, KeyLevel, "zero"),
    Layer(TRUE, TRUE, 0, NumColumns, 0, KeyLevel, "hole"),
    Layer(TRUE, TRUE, 0, NumColumns, 1, KeyLevel - 1, "full"),
    Layer(TRUE, TRUE, 0, NumColumns, 0, 0 - 1, "full") }

\* stacks with enough contenders for the local cache of the general path to
\* fill up: contenders without data anywhere, below one with data at the first
\* cell only, one whose driver has no data and an offset layer whose driver
\* has no data; and one contender short of a full cache below two offset
\* layers
LargeStacks ==
    LET nothing == Layer(TRUE, FALSE, 0, NumColumns, 0, KeyLevel, "empty")
        first == Layer(TRUE, FALSE, 0, NumColumns, 0, KeyLevel, "only")
        failing == Layer(TRUE, FALSE, 1, NumColumns, 0, 0 - 1, "full")
        failingOffset == Layer(TRUE, TRUE, 0, NumColumns, 0, 0 - 1, "full")
        above == Layer(TRUE, TRUE, 0, NumColumns, 0, KeyLevel, "full")
    IN  { [k \in 1 .. maxHeightfields + 3 |->
                IF k <= maxHeightfields THEN nothing
                ELSE IF k = maxHeightfields + 1 THEN first
                ELSE IF k = maxHeightfields + 2 THEN failing
                ELSE failingOffset],
          [k \in 1 .. maxHeightfields + 1 |->
                IF k < maxHeightfields THEN nothing ELSE above] }

Stacks == UNION {[1 .. n -> LayerKinds] : n \in 1 .. NumLayers}

\* what the caller's target raster may hold before the call
InitialHeights == {NO_DATA_VALUE, 3}

\* the resolutions vector before the call
Unwritten == 0 - 1

LayerData(index, key, isFallback) ==
    [index |-> index, key |-> key, isFallback |-> isFallback]

NoCell == [done |-> FALSE, resolved |-> 0 - 1, elevation |-> NO_DATA_VALUE,
           level |-> InvalidKey, fallback |-> FALSE, offs |-> {}]

\* the pipeline and the walks at rest, while a populateHeightfield request runs
PipelineIdle ==
    /\ pLayer = Layer(FALSE, FALSE, 0, NumPixels, 0, KeyLevel, "full")
    /\ pKey = KeyLevel
    /\ pDriver = [answer |-> "failed", width |-> NumPixels, shares |-> FALSE,
                  dataTop |-> 0 - 1]
    /\ pStore = <<>>
    /\ pMosaic = [numKeys |-> 0, level |-> 0]
    /\ pBuild = "unchecked"
    /\ pCanceled = FALSE
    /\ ppc = "idle"
    /\ pHf = INVALID /\ pAcquired = <<>>
    /\ pResults = <<>> /\ pLayers = <<>> /\ pDriverCalls = <<>>

WalkIdle ==
    /\ wLoop = "none"
    /\ wLayer = Layer(FALSE, FALSE, 0, NumPixels, 0, KeyLevel, "full")
    /\ wStart = 0 /\ wKey = 0 /\ wOk = FALSE /\ wAttempts = 0
    /\ wKeys = <<>> /\ wTiles = 0
    /\ wCanceled = FALSE
    /\ wpc = "exited"

MosaicIdle ==
    /\ mKind = "none"
    /\ mLayer = Layer(FALSE, FALSE, 0, NumPixels, 0, KeyLevel, "full")
    /\ mKey = KeyLevel
    /\ mMosaic = [numKeys |-> 0, level |-> 0]
    /\ mTiles = <<>>
    /\ mDriver = [answer |-> "failed", dataTop |-> 0 - 1, clearFrom |-> 0]
    /\ mBuild = "unchecked"
    /\ mCanceled = FALSE
    /\ mpc = "returned"
    /\ intersectingKeys = <<>> /\ mIdx = 0 /\ mSubKey = 0 - 1
    /\ mSources = <<>> /\ hasAtLeastOneSourceAtTargetLOD = FALSE
    /\ mCached = {}
    /\ mOutput = [valid |-> FALSE, width |-> 0, height |-> 0, level |-> 0 - 1,
                 px |-> <<>>]

CompositeIdle ==
    /\ cKind = "none"
    /\ cCacheAlive = FALSE
    /\ cCache = <<>>
    /\ cRasters = <<>>
    /\ cComposites = <<>>
    /\ cCleaned = FALSE
    /\ cTerminated = FALSE

\* --------------------------------------------- a layer and its threads
Threads == 1 .. NumThreads

\* a Status: code and message
LayerStatus(code, message) == [code |-> code, message |-> message]

\* what a thread's last call returned
Returned(kind, status) == [kind |-> kind, status |-> status]
NothingReturned == Returned("none", LayerStatus(Status_OK, ""))

\* a thread outside every call
IdleThread(got) == [pc |-> "idle", ret |-> got]

\* Layer::construct, Layer.cpp lines 26-40
ConstructedStatus(openAutomatically) ==
    LayerStatus(ResourceUnavailable,
                IF openAutomatically THEN "Layer closed" ELSE "Layer disabled")

\* the raster a caller passes to writeHeightfield or writeImage
WrittenRaster == <<3, 4>>

\* no layer under observation
LayerIdle ==
    /\ lKind = "elevation"
    /\ lOpenAutomatically = TRUE
    /\ lWritingSupported = FALSE /\ lWritingRequested = FALSE
    /\ lStatus = ConstructedStatus(TRUE)
    /\ lShared = {} /\ lExclusive = 0
    /\ lThread = [t \in Threads |-> IdleThread(NothingReturned)]
    /\ lRaster = WrittenRaster
    /\ lClosed = FALSE

\* ------------------------------------- a layer's properties and revision
\* the values a float property is set to, the encodings and the attributions
PropertyValues == {NO_DATA_VALUE, 0}
Encodings == {"SingleChannel", "MapboxRGB"}
Attributions == {"", "credit"}

\* no layer whose properties are under observation
PropertiesIdle ==
    /\ fOffset = FALSE
    /\ fNoDataValue = NO_DATA_VALUE
    /\ fMinValidValue = NO_DATA_VALUE
    /\ fMaxValidValue = NO_DATA_VALUE
    /\ fEncoding = "SingleChannel"
    /\ fOpenAutomatically = TRUE
    /\ fAttribution = ""
    /\ fReopenRequired = FALSE
    /\ fRevision = 0

\* ------------------------------- a GDAL elevation layer and its threads
\* a thread's GDAL::Driver: whether it is open, and, as history, whether a
\* close() of the layer has returned since it was opened
Handle(open, beforeClose) == [open |-> open, beforeClose |-> beforeClose]
NoHandle == Handle(FALSE, FALSE)

\* no GDAL layer under observation
GdalIdle ==
    /\ gStatus = ConstructedStatus(TRUE)
    /\ gShared = {} /\ gExclusive = 0
    /\ gThread = [t \in Threads |-> IdleThread(NothingReturned)]
    /\ gHandle = [t \in Threads |-> NoHandle]

\* --------------------------------------- the sample spacing of a raster
\* a division: its divisor and its quotient
Quotient(divisor, quotient) == [divisor |-> divisor, quotient |-> quotient]
NotComputed == Quotient(1, 0)

\* no raster whose spacing is under observation
SpacingIdle ==
    /\ sWidth = 1 /\ sHeight = 1
    /\ sExtent = [width |-> 0, height |-> 0]
    /\ sPc = "new"
    /\ sDx = NotComputed /\ sDy = NotComputed

\* ------------------------------------ the read window of a GDAL driver
\* a read window
Window(off_x, off_y, width, height) ==
    [off_x |-> off_x, off_y |-> off_y, width |-> width, height |-> height]

\* no driver call under observation
WindowIdle ==
    /\ dLevel = 0 /\ dCanceled = FALSE /\ dIntersects = FALSE
    /\ dRaster = [width |-> 1, height |-> 1]
    /\ dSource = [min_x |-> 0, min_y |-> 0, max_x |-> 0, max_y |-> 0]
    /\ dTarget = [width |-> 0, height |-> 0]
    /\ dPc = "call"
    /\ dWindow = Window(0, 0, 0, 0)
    /\ dResult = "none"

\* the state at the call, for a stack drawn from `stacks`
PopulateStart(stacks) ==
    /\ layers \in stacks
    /\ \E h \in InitialHeights : hf = [q \in Cells |-> h]
    /\ hfBefore = hf
    /\ resolutions = [q \in Cells |-> Unwritten]
    /\ wantResolutions \in BOOLEAN
    /\ canceled = FALSE
    /\ pc = "start"
    /\ contenders = <<>> /\ offsets = <<>> /\ numFallbackLayers = 0
    /\ heightfields = <<>> /\ heightfieldActualKeys = <<>>
    /\ heightFallback = <<>> /\ heightFailed = <<>>
    /\ offsetfields = <<>> /\ offsetFailed = <<>>
    /\ numHeightfieldsInCache = 0
    /\ c = 0 /\ r = 0 /\ oi = 0 /\ ci = 1
    /\ resolvedIndex = 0 - 1 /\ resolution = FLT_MAX /\ realData = FALSE
    /\ requiresResample = TRUE
    /\ ret = "none"
    /\ calls = <<>>
    /\ cellLog = [q \in Cells |-> NoCell]

PopulateInit == PopulateStart(Stacks)

Init ==
    PopulateInit /\ PipelineIdle /\ WalkIdle /\ MosaicIdle /\ CompositeIdle /\ LayerIdle /\ PropertiesIdle /\ GdalIdle /\ SpacingIdle /\ WindowIdle

\* no populateHeightfield request
PopulateIdle ==
    /\ layers = <<>>
    /\ hf = [q \in Cells |-> NO_DATA_VALUE]
    /\ hfBefore = hf
    /\ resolutions = [q \in Cells |-> Unwritten]
    /\ wantResolutions = FALSE
    /\ canceled = FALSE
    /\ pc = "done"
    /\ contenders = <<>> /\ offsets = <<>> /\ numFallbackLayers = 0
    /\ heightfields = <<>> /\ heightfieldActualKeys = <<>>
    /\ heightFallback = <<>> /\ heightFailed = <<>>
    /\ offsetfields = <<>> /\ offsetFailed = <<>>
    /\ numHeightfieldsInCache = 0
    /\ c = 0 /\ r = 0 /\ oi = 0 /\ ci = 1
    /\ resolvedIndex = 0 - 1 /\ resolution = FLT_MAX /\ realData = FALSE
    /\ requiresResample = TRUE
    /\ ret = FALSE
    /\ calls = <<>>
    /\ cellLog = [q \in Cells |-> NoCell]

\* --------------------------------- populateHeightfield: classification
\* faulty variant: the stack visited lowest index first
StackOrderForward(n) == [k \in 1 .. n |-> k - 1]

\* the order in which the stack is visited: highest index first
StackOrder(n) == [k \in 1 .. n |-> n - k]

\* faulty variant: the layer's minimum level is not looked at
ClassifyLayerAnyLevel(stack, i) ==
    LET layer == stack[i + 1]
        mappedKey == mapResolution(KeyLevel, NumColumns, layer.tileSize)
        bestKey == bestAvailableTileKey(layer, mappedKey)
    IN  [useLayer |-> layer.open /\ KeyValid(bestKey),
         offset |-> layer.offset,
         counted |-> layer.open /\ KeyValid(bestKey) /\ mappedKey # bestKey,
         ld |-> LayerData(i, bestKey, bestKey # mappedKey)]

\* lines 618-690: one iteration of the classification loop, for the layer of
\* code index i: whether the layer is used, in which list, whether it counts
\* as a fallback layer, and the entry pushed
ClassifyLayer(stack, i) ==
    LET layer == stack[i + 1]
        mappedKey == mapResolution(KeyLevel, NumColumns, layer.tileSize)
        belowMin == KeyLevel < layer.minLevel
        bestKey == IF belowMin THEN mappedKey
                   ELSE bestAvailableTileKey(layer, mappedKey)
    IN  [useLayer |-> layer.open /\ ~belowMin /\ KeyValid(bestKey),
         offset |-> layer.offset,
         counted |-> layer.open /\ ~belowMin /\ KeyValid(bestKey)
                        /\ mappedKey # bestKey,
         ld |-> LayerData(i, bestKey, bestKey # mappedKey)]

IsContender(entry) == entry.useLayer /\ ~entry.offset
IsOffset(entry) == entry.useLayer /\ entry.offset

\* lines 615-691: the loop visits the stack in `order`; every used layer is
\* pushed at the back of its list
CollectLayers(stack, order) ==
    LET visited == [k \in 1 .. Len(order) |-> ClassifyLayer(stack, order[k])]
        pushed(entries) == [k \in 1 .. Len(entries) |-> entries[k].ld]
    IN  [contenders |-> pushed(SelectSeq(visited, IsContender)),
         offsets |-> pushed(SelectSeq(visited, IsOffset)),
         numFallbackLayers |->
             Cardinality({k \in 1 .. Len(visited) : visited[k].counted})]

Classified(stack) == CollectLayers(stack, StackOrder(Len(stack)))

\* faulty variant: only the contenders are compared with the fallback count
EverythingFallbackContendersOnly == Len(contenders) = numFallbackLayers

\* lines 693-703: the two early exits
NothingUsable == contenders = <<>> /\ offsets = <<>>
EverythingFallback == Len(contenders) + Len(offsets) = numFallbackLayers

\* line 727
SingleContender == Len(contenders) = 1 /\ offsets = <<>>

\* ------------------------------------ populateHeightfield: the fetches
CallRecord(index, level, ok) == [index |-> index, level |-> level, ok |-> ok]

\* lines 819-826: fetch the contender's heightfield, falling back on parent
\* keys; `log` collects the createHeightfield calls
RECURSIVE FetchWithFallback(_, _, _, _, _)
FetchWithFallback(layer, index, level, cancel, log) ==
    IF ~(KeyValid(level) /\ isKeyInLegalRange(layer, level))
    THEN [hf |-> INVALID, key |-> level, log |-> log]
    ELSE LET got == createHeightfield(layer, index, level, cancel).value
             log2 == Append(log, CallRecord(index, level, got.valid))
         IN  IF got.valid THEN [hf |-> got, key |-> level, log |-> log2]
             ELSE FetchWithFallback(layer, index, MakeParent(level), cancel, log2)

\* GeoHeightfield::heightAt(x, y, srs, interpolation) at the world position of
\* the target's cell q
heightAt(raster, q) == raster.px[q]

\* the entry of the log of calls that marks a clearing of the local cache
Evicted == CallRecord(0 - 1, InvalidKey, FALSE)

\* faulty variant: the cache is cleared only once it holds more than the
\* maximum
ClearCacheLate(st) ==
    IF st.n > maxHeightfields
    THEN [st EXCEPT !.hfs = [k \in DOMAIN st.hfs |-> INVALID],
                    !.fb = [k \in DOMAIN st.fb |-> FALSE],
                    !.n = 0,
                    !.log = Append(@, Evicted)]
    ELSE st

\* faulty variant: the clearing also forgets which contenders failed
ClearCacheForgetsFailures(st) ==
    IF st.n >= maxHeightfields
    THEN [st EXCEPT !.hfs = [k \in DOMAIN st.hfs |-> INVALID],
                    !.fb = [k \in DOMAIN st.fb |-> FALSE],
                    !.failed = [k \in DOMAIN st.failed |-> FALSE],
                    !.n = 0,
                    !.log = Append(@, Evicted)]
    ELSE st

\* lines 874-884: the local cache is cleared when it holds too many rasters;
\* the log of calls records it
ClearCache(st) ==
    IF st.n >= maxHeightfields
    THEN [st EXCEPT !.hfs = [k \in DOMAIN st.hfs |-> INVALID],
                    !.fb = [k \in DOMAIN st.fb |-> FALSE],
                    !.n = 0,
                    !.log = Append(@, Evicted)]
    ELSE st

\* faulty variant: real data is recorded only when the sample is valid
SampleContenderRealWhenValid(st, i, q) ==
    LET layerHF == st.hfs[i]
        isFallback == st.fb[i]
        elevation == heightAt(layerHF, q)
    IN  IF elevation # NO_DATA_VALUE
        THEN [st EXCEPT !.real = st.real \/ ~isFallback,
                        !.resolved = contenders[i].index,
                        !.elevation = elevation,
                        !.level = st.keys[i],
                        !.fallback = isFallback,
                        !.resolution = getResolutionForTileSize(st.keys[i])]
        ELSE st

\* faulty variant: the contender is taken as resolved before its sample is tested
SampleContenderResolvesAlways(st, i, q) ==
    LET layerHF == st.hfs[i]
        isFallback == st.fb[i]
        elevation == heightAt(layerHF, q)
    IN  [st EXCEPT !.real = st.real \/ ~isFallback,
                   !.resolved = contenders[i].index,
                   !.elevation = elevation,
                   !.level = st.keys[i],
                   !.fallback = isFallback,
                   !.resolution = getResolutionForTileSize(st.keys[i])]

\* lines 845-871: sample a valid contender raster at cell q
SampleContender(st, i, q) ==
    LET layerHF == st.hfs[i]
        isFallback == st.fb[i]
        real == st.real \/ ~isFallback
        elevation == heightAt(layerHF, q)
    IN  IF elevation # NO_DATA_VALUE
        THEN [st EXCEPT !.real = real,
                        !.resolved = contenders[i].index,
                        !.elevation = elevation,
                        !.level = st.keys[i],
                        !.fallback = isFallback,
                        !.resolution = getResolutionForTileSize(st.keys[i])]
        ELSE [st EXCEPT !.real = real]

\* lines 804-871: one iteration of the contender loop, up to the clearing of
\* the local cache
ContenderStep(i, st, q, cancel) ==
    IF st.failed[i] THEN st
    ELSE IF ~st.hfs[i].valid
    THEN LET f == FetchWithFallback(layers[contenders[i].index + 1],
                                    contenders[i].index, st.keys[i], cancel,
                                    st.log)
         IN  IF f.hf.valid
             THEN LET st2 == [st EXCEPT
                        !.hfs[i] = f.hf,
                        !.keys[i] = f.key,
                        !.fb[i] = contenders[i].isFallback
                                    \/ f.key # contenders[i].key,
                        !.n = st.n + 1,
                        !.log = f.log]
                  IN  SampleContender(st2, i, q)
             ELSE [st EXCEPT !.keys[i] = f.key,
                             !.failed[i] = TRUE,
                             !.log = f.log]
    ELSE SampleContender(st, i, q)

\* lines 809-810 and 841-845: an iteration that skips or fails its contender
\* continues before the clearing of the local cache
ReachesClearing(st, i) == st.hfs[i].valid

\* lines 803-885: the contender loop of one cell, from contender i on
RECURSIVE ContenderScan(_, _, _, _)
ContenderScan(i, st, q, cancel) ==
    IF i > Len(contenders) \/ st.resolved >= 0 THEN st
    ELSE LET sampled == ContenderStep(i, st, q, cancel)
         IN  ContenderScan(i + 1,
                           IF ReachesClearing(sampled, i)
                           THEN ClearCache(sampled) ELSE sampled,
                           q, cancel)

\* ----------------------------------- populateHeightfield: the actions
CurrentCell == <<c, r>>

\* lines 604-691
Classify ==
    /\ pc = "start"
    /\ LET cl == Classified(layers) IN
        /\ contenders' = cl.contenders
        /\ offsets' = cl.offsets
        /\ numFallbackLayers' = cl.numFallbackLayers
    /\ pc' = "exits"
    /\ UNCHANGED <<layers, hf, resolutions, wantResolutions, canceled,
                   heightfields, heightfieldActualKeys, heightFallback,
                   heightFailed, offsetfields, offsetFailed,
                   numHeightfieldsInCache, c, r, oi, resolvedIndex,
                   resolution, realData, requiresResample, ret, hfBefore,
                   calls, cellLog>>
    /\ UNCHANGED <<ci, pipeVars, walkVars, mosaicVars, compVars, layerVars, propVars, gdalVars, spacingVars, windowVars>>

\* lines 693-703
EarlyExit ==
    /\ pc = "exits"
    /\ NothingUsable \/ EverythingFallback
    /\ ret' = FALSE
    /\ pc' = "done"
    /\ UNCHANGED <<layers, hf, resolutions, wantResolutions, canceled,
                   contenders, offsets, numFallbackLayers, heightfields,
                   heightfieldActualKeys, heightFallback, heightFailed,
                   offsetfields, offsetFailed, numHeightfieldsInCache, c, r,
                   oi, resolvedIndex, resolution, realData, requiresResample,
                   hfBefore, calls, cellLog>>
    /\ UNCHANGED <<ci, pipeVars, walkVars, mosaicVars, compVars, layerVars, propVars, gdalVars, spacingVars, windowVars>>

\* line 734: the fetched raster has the target's size
SameSize(raster) == raster.width = NumColumns /\ raster.height = NumRows

\* lines 750-755: the fast path's resolutions
FastPathResolution(level) == getResolutionForTileSize(level)

\* lines 725-758
FastPath ==
    /\ pc = "exits"
    /\ ~(NothingUsable \/ EverythingFallback)
    /\ SingleContender
    /\ LET ld == contenders[1]
           layerHF == createHeightfield(layers[ld.index + 1], ld.index,
                                        ld.key, canceled).value
           copy == layerHF.valid /\ SameSize(layerHF)
       IN  /\ calls' = Append(calls, CallRecord(ld.index, ld.key, layerHF.valid))
           /\ requiresResample' = ~copy
           /\ hf' = IF copy THEN [q \in Cells |-> layerHF.px[q]] ELSE hf
           /\ realData' = copy
           /\ resolutions' =
                IF copy /\ wantResolutions
                THEN [q \in Cells |-> FastPathResolution(ld.key)]
                ELSE resolutions
           /\ cellLog' =
                IF copy
                THEN [q \in Cells |->
                        [done |-> TRUE,
                         resolved |-> IF layerHF.px[q] # NO_DATA_VALUE
                                      THEN ld.index ELSE 0 - 1,
                         elevation |-> layerHF.px[q],
                         level |-> ld.key, fallback |-> ld.isFallback,
                         offs |-> {}]]
                ELSE cellLog
           /\ pc' = IF copy THEN "resolve" ELSE "resample"
    /\ UNCHANGED <<layers, wantResolutions, canceled, contenders, offsets,
                   numFallbackLayers, heightfields, heightfieldActualKeys,
                   heightFallback, heightFailed, offsetfields, offsetFailed,
                   numHeightfieldsInCache, c, r, oi, resolvedIndex,
                   resolution, ret, hfBefore>>
    /\ UNCHANGED <<ci, pipeVars, walkVars, mosaicVars, compVars, layerVars, propVars, gdalVars, spacingVars, windowVars>>

\* lines 761-780: the general path's local state
BeginResample ==
    /\ \/ pc = "resample"
       \/ /\ pc = "exits"
          /\ ~(NothingUsable \/ EverythingFallback)
          /\ ~SingleContender
    /\ heightfields' = [k \in 1 .. Len(contenders) |-> INVALID]
    /\ heightfieldActualKeys' = [k \in 1 .. Len(contenders) |-> contenders[k].key]
    /\ offsetfields' = [k \in 1 .. Len(offsets) |-> INVALID]
    /\ heightFallback' = [k \in 1 .. Len(contenders) |-> FALSE]
    /\ heightFailed' = [k \in 1 .. Len(contenders) |-> FALSE]
    /\ offsetFailed' = [k \in 1 .. Len(offsets) |-> FALSE]
    /\ numHeightfieldsInCache' = 0
    /\ c' = 0
    /\ pc' = "column"
    /\ UNCHANGED <<layers, hf, resolutions, wantResolutions, canceled,
                   contenders, offsets, numFallbackLayers, r, oi,
                   resolvedIndex, resolution, realData, requiresResample,
                   ret, hfBefore, calls, cellLog>>
    /\ UNCHANGED <<ci, pipeVars, walkVars, mosaicVars, compVars, layerVars, propVars, gdalVars, spacingVars, windowVars>>

\* lines 782-792: the head of the column loop, with its cancellation check
ColumnCheck ==
    /\ pc = "column"
    /\ IF c >= NumColumns
       THEN pc' = "resolve" /\ UNCHANGED <<ret, r>>
       ELSE IF canceled
       THEN pc' = "done" /\ ret' = FALSE /\ UNCHANGED r
       ELSE pc' = "contenders" /\ r' = 0 /\ UNCHANGED ret
    /\ UNCHANGED <<layers, hf, resolutions, wantResolutions, canceled,
                   contenders, offsets, numFallbackLayers, heightfields,
                   heightfieldActualKeys, heightFallback, heightFailed,
                   offsetfields, offsetFailed, numHeightfieldsInCache, c, oi,
                   resolvedIndex, resolution, realData, requiresResample,
                   hfBefore, calls, cellLog>>
    /\ UNCHANGED <<ci, pipeVars, walkVars, mosaicVars, compVars, layerVars, propVars, gdalVars, spacingVars, windowVars>>

\* lines 796-885: the contender loop of the current cell
ContenderLoop ==
    /\ pc = "contenders"
    /\ LET st0 == [hfs |-> heightfields, keys |-> heightfieldActualKeys,
                   fb |-> heightFallback, failed |-> heightFailed,
                   n |-> numHeightfieldsInCache, real |-> realData,
                   resolved |-> 0 - 1, resolution |-> FLT_MAX,
                   elevation |-> NO_DATA_VALUE, level |-> InvalidKey,
                   fallback |-> FALSE, log |-> calls]
           st == ContenderScan(1, st0, CurrentCell, canceled)
       IN  /\ heightfields' = st.hfs
           /\ heightfieldActualKeys' = st.keys
           /\ heightFallback' = st.fb
           /\ heightFailed' = st.failed
           /\ numHeightfieldsInCache' = st.n
           /\ realData' = st.real
           /\ resolvedIndex' = st.resolved
           /\ resolution' = st.resolution
           /\ calls' = st.log
           /\ hf' = IF st.resolved >= 0
                    THEN [hf EXCEPT ![CurrentCell] = st.elevation] ELSE hf
           /\ cellLog' = [cellLog EXCEPT ![CurrentCell] =
                            [done |-> FALSE, resolved |-> st.resolved,
                             elevation |-> st.elevation, level |-> st.level,
                             fallback |-> st.fallback, offs |-> {}]]
    /\ oi' = Len(offsets)
    /\ pc' = "offsets"
    /\ UNCHANGED <<layers, resolutions, wantResolutions, canceled, contenders,
                   offsets, numFallbackLayers, offsetfields, offsetFailed, c,
                   r, requiresResample, ret, hfBefore>>
    /\ UNCHANGED <<ci, pipeVars, walkVars, mosaicVars, compVars, layerVars, propVars, gdalVars, spacingVars, windowVars>>

\* faulty variant: the comparison of the on-top rule reversed
OffsetSkippedAbove(offsetIndex, resolved) ==
    resolved >= 0 /\ offsetIndex > resolved

\* line 894: an offset layer below the resolved contender is skipped
OffsetSkipped(offsetIndex, resolved) ==
    resolved >= 0 /\ offsetIndex < resolved

\* line 919: the offset sample is added
OffsetApplies(elevation) ==
    elevation # NO_DATA_VALUE /\ ~equiv(elevation, 0)

\* faulty variant: the coarser of the two resolutions is kept
OffsetResolutionCoarsest(current, level) ==
    Max(current, getResolutionForTileSize(level))

\* lines 925-927
OffsetResolution(current, level) ==
    Min(current, getResolutionForTileSize(level))

\* lines 887-929: one iteration of the offset loop of the current cell
OffsetIter ==
    /\ pc = "offsets"
    /\ oi >= 1
    /\ IF canceled
       THEN /\ pc' = "done" /\ ret' = FALSE
            /\ UNCHANGED <<hf, offsetfields, offsetFailed, oi, resolution,
                           realData, calls, cellLog>>
       ELSE IF OffsetSkipped(offsets[oi].index, resolvedIndex) \/ offsetFailed[oi]
       THEN /\ oi' = oi - 1
            /\ UNCHANGED <<pc, ret, hf, offsetfields, offsetFailed,
                           resolution, realData, calls, cellLog>>
       ELSE LET ld == offsets[oi]
                fetch == ~offsetfields[oi].valid
                layerHF == IF fetch
                           THEN createHeightfield(layers[ld.index + 1],
                                                  ld.index, ld.key,
                                                  canceled).value
                           ELSE offsetfields[oi]
                elevation == heightAt(layerHF, CurrentCell)
                applies == layerHF.valid /\ OffsetApplies(elevation)
            IN  /\ calls' = IF fetch
                            THEN Append(calls, CallRecord(ld.index, ld.key,
                                                          layerHF.valid))
                            ELSE calls
                /\ offsetfields' = [offsetfields EXCEPT ![oi] = layerHF]
                /\ offsetFailed' = [offsetFailed EXCEPT ![oi] = ~layerHF.valid]
                /\ realData' = (realData \/ layerHF.valid)
                /\ hf' = IF applies
                         THEN [hf EXCEPT ![CurrentCell] = FAdd(@, elevation)]
                         ELSE hf
                /\ resolution' = IF applies
                                 THEN OffsetResolution(resolution, ld.key)
                                 ELSE resolution
                /\ cellLog' = IF applies
                              THEN [cellLog EXCEPT ![CurrentCell].offs =
                                        @ \cup {ld.index}]
                              ELSE cellLog
                /\ oi' = oi - 1
                /\ UNCHANGED <<pc, ret>>
    /\ UNCHANGED <<layers, resolutions, wantResolutions, canceled, contenders,
                   offsets, numFallbackLayers, heightfields,
                   heightfieldActualKeys, heightFallback, heightFailed,
                   numHeightfieldsInCache, c, r, resolvedIndex,
                   requiresResample, hfBefore>>
    /\ UNCHANGED <<ci, pipeVars, walkVars, mosaicVars, compVars, layerVars, propVars, gdalVars, spacingVars, windowVars>>

\* lines 931-936: the cell's resolution is stored and the loops advance
CellEnd ==
    /\ pc = "offsets"
    /\ oi = 0
    /\ resolutions' = IF wantResolutions
                      THEN [resolutions EXCEPT ![CurrentCell] = resolution]
                      ELSE resolutions
    /\ cellLog' = [cellLog EXCEPT ![CurrentCell].done = TRUE]
    /\ IF r + 1 < NumRows
       THEN r' = r + 1 /\ pc' = "contenders" /\ UNCHANGED c
       ELSE c' = c + 1 /\ pc' = "column" /\ UNCHANGED r
    /\ UNCHANGED <<layers, hf, wantResolutions, canceled, contenders, offsets,
                   numFallbackLayers, heightfields, heightfieldActualKeys,
                   heightFallback, heightFailed, offsetfields, offsetFailed,
                   numHeightfieldsInCache, oi, resolvedIndex, resolution,
                   realData, requiresResample, ret, hfBefore, calls>>
    /\ UNCHANGED <<ci, pipeVars, walkVars, mosaicVars, compVars, layerVars, propVars, gdalVars, spacingVars, windowVars>>

\* lines 532-575 with geoid = nullptr: invalid heights become 0
resolveInvalidHeights(grid, invalidValue) ==
    [q \in DOMAIN grid |-> IF grid[q] = invalidValue THEN 0 ELSE grid[q]]

\* faulty variant: no cancellation check before the final return
ResolveUnchecked ==
    /\ pc = "resolve"
    /\ hf' = resolveInvalidHeights(hf, NO_DATA_VALUE)
    /\ ret' = realData
    /\ pc' = "done"
    /\ UNCHANGED <<layers, resolutions, wantResolutions, canceled, contenders,
                   offsets, numFallbackLayers, heightfields,
                   heightfieldActualKeys, heightFallback, heightFailed,
                   offsetfields, offsetFailed, numHeightfieldsInCache, c, r,
                   oi, resolvedIndex, resolution, realData, requiresResample,
                   hfBefore, calls, cellLog>>
    /\ UNCHANGED <<ci, pipeVars, walkVars, mosaicVars, compVars, layerVars, propVars, gdalVars, spacingVars, windowVars>>

\* lines 939-948
Resolve ==
    /\ pc = "resolve"
    /\ hf' = resolveInvalidHeights(hf, NO_DATA_VALUE)
    /\ ret' = IF canceled THEN FALSE ELSE realData
    /\ pc' = "done"
    /\ UNCHANGED <<layers, resolutions, wantResolutions, canceled, contenders,
                   offsets, numFallbackLayers, heightfields,
                   heightfieldActualKeys, heightFallback, heightFailed,
                   offsetfields, offsetFailed, numHeightfieldsInCache, c, r,
                   oi, resolvedIndex, resolution, realData, requiresResample,
                   hfBefore, calls, cellLog>>
    /\ UNCHANGED <<ci, pipeVars, walkVars, mosaicVars, compVars, layerVars, propVars, gdalVars, spacingVars, windowVars>>

\* another thread cancels the request
Cancel ==
    /\ pc # "done"
    /\ ~canceled
    /\ canceled' = TRUE
    /\ UNCHANGED <<layers, hf, resolutions, wantResolutions, pc, contenders,
                   offsets, numFallbackLayers, heightfields,
                   heightfieldActualKeys, heightFallback, heightFailed,
                   offsetfields, offsetFailed, numHeightfieldsInCache, c, r,
                   oi, resolvedIndex, resolution, realData, requiresResample,
                   ret, hfBefore, calls, cellLog>>
    /\ UNCHANGED <<ci, pipeVars, walkVars, mosaicVars, compVars, layerVars, propVars, gdalVars, spacingVars, windowVars>>

Next ==
    \/ Classify
    \/ EarlyExit
    \/ FastPath
    \/ BeginResample
    \/ ColumnCheck
    \/ ContenderLoop
    \/ OffsetIter
    \/ CellEnd
    \/ Resolve
    \/ Cancel

vars == <<popVars, pipeVars, walkVars, mosaicVars, compVars, layerVars, propVars, gdalVars, spacingVars, windowVars>>

Spec == Init /\ [][Next]_vars

\* ------------------------ populateHeightfield, one contender at a time
\* lines 797-871: one iteration of the contender loop of the current cell
ContenderIter ==
    /\ pc = "contenders"
    /\ ci <= Len(contenders)
    /\ ci = 1 \/ resolvedIndex < 0
    /\ LET st0 == [hfs |-> heightfields, keys |-> heightfieldActualKeys,
                   fb |-> heightFallback, failed |-> heightFailed,
                   n |-> numHeightfieldsInCache, real |-> realData,
                   resolved |-> IF ci = 1 THEN 0 - 1 ELSE resolvedIndex,
                   resolution |-> IF ci = 1 THEN FLT_MAX ELSE resolution,
                   elevation |-> NO_DATA_VALUE, level |-> InvalidKey,
                   fallback |-> FALSE, log |-> calls]
           st == ContenderStep(ci, st0, CurrentCell, canceled)
       IN  /\ heightfields' = st.hfs
           /\ heightfieldActualKeys' = st.keys
           /\ heightFallback' = st.fb
           /\ heightFailed' = st.failed
           /\ numHeightfieldsInCache' = st.n
           /\ realData' = st.real
           /\ resolvedIndex' = st.resolved
           /\ resolution' = st.resolution
           /\ calls' = st.log
           /\ hf' = IF st.resolved >= 0
                    THEN [hf EXCEPT ![CurrentCell] = st.elevation] ELSE hf
           /\ cellLog' = [cellLog EXCEPT ![CurrentCell] =
                            [done |-> FALSE, resolved |-> st.resolved,
                             elevation |-> st.elevation, level |-> st.level,
                             fallback |-> st.fallback, offs |-> {}]]
           /\ IF ReachesClearing(st, ci)
              THEN pc' = "clearing" /\ UNCHANGED ci
              ELSE pc' = "contenders" /\ ci' = ci + 1
    /\ UNCHANGED <<layers, resolutions, wantResolutions, canceled, contenders,
                   offsets, numFallbackLayers, offsetfields, offsetFailed, c,
                   r, oi, requiresResample, ret, hfBefore>>
    /\ UNCHANGED <<pipeVars, walkVars, mosaicVars, compVars, layerVars, propVars, gdalVars, spacingVars, windowVars>>

\* lines 874-885: the end of an iteration that had a raster to sample
ContenderClear ==
    /\ pc = "clearing"
    /\ LET st == ClearCache([hfs |-> heightfields, fb |-> heightFallback,
                             keys |-> heightfieldActualKeys,
                             failed |-> heightFailed,
                             n |-> numHeightfieldsInCache, log |-> calls])
       IN  /\ heightfields' = st.hfs
           /\ heightFallback' = st.fb
           /\ heightfieldActualKeys' = st.keys
           /\ heightFailed' = st.failed
           /\ numHeightfieldsInCache' = st.n
           /\ calls' = st.log
    /\ ci' = ci + 1
    /\ pc' = "contenders"
    /\ UNCHANGED <<layers, hf, resolutions, wantResolutions, canceled,
                   contenders, offsets, numFallbackLayers, offsetfields,
                   offsetFailed, c, r, oi, resolvedIndex, resolution,
                   realData, requiresResample, ret, hfBefore, cellLog>>
    /\ UNCHANGED <<pipeVars, walkVars, mosaicVars, compVars, layerVars, propVars, gdalVars, spacingVars, windowVars>>

\* line 803: the contender loop ends, with a resolved cell or out of contenders
ContendersDone ==
    /\ pc = "contenders"
    /\ \/ ci > Len(contenders)
       \/ ci > 1 /\ resolvedIndex >= 0
    /\ IF ci = 1
       THEN /\ resolvedIndex' = 0 - 1
            /\ resolution' = FLT_MAX
            /\ cellLog' = [cellLog EXCEPT ![CurrentCell] =
                             [done |-> FALSE, resolved |-> 0 - 1,
                              elevation |-> NO_DATA_VALUE,
                              level |-> InvalidKey, fallback |-> FALSE,
                              offs |-> {}]]
       ELSE UNCHANGED <<resolvedIndex, resolution, cellLog>>
    /\ oi' = Len(offsets)
    /\ ci' = 1
    /\ pc' = "offsets"
    /\ UNCHANGED <<layers, hf, resolutions, wantResolutions, canceled,
                   contenders, offsets, numFallbackLayers, heightfields,
                   heightfieldActualKeys, heightFallback, heightFailed,
                   offsetfields, offsetFailed, numHeightfieldsInCache, c, r,
                   realData, requiresResample, ret, hfBefore, calls>>
    /\ UNCHANGED <<pipeVars, walkVars, mosaicVars, compVars, layerVars, propVars, gdalVars, spacingVars, windowVars>>

InitCache ==
    /\ PopulateStart(LargeStacks)
    /\ PipelineIdle /\ WalkIdle /\ MosaicIdle /\ CompositeIdle /\ LayerIdle /\ PropertiesIdle /\ GdalIdle /\ SpacingIdle /\ WindowIdle

NextCache ==
    \/ Classify
    \/ BeginResample
    \/ ColumnCheck
    \/ ContenderIter
    \/ ContenderClear
    \/ ContendersDone
    \/ OffsetIter
    \/ CellEnd
    \/ Resolve
    \/ Cancel

SpecCache == InitCache /\ [][NextCache]_vars

\* =====================================================================
\* Properties of populateHeightfield (specification Spec)
\* =====================================================================

\* what contender k of the current request yields at cell q when its raster
\* is fetched (with the parent walk) by a request that is not cancelled;
\* NO_DATA_VALUE when it has no raster or the raster holds no data there
ContenderYield(k, q) ==
    LET ld == contenders[k]
        f == FetchWithFallback(layers[ld.index + 1], ld.index, ld.key, FALSE, <<>>)
    IN  IF f.hf.valid THEN heightAt(f.hf, q) ELSE NO_DATA_VALUE

\* the contenders that yield a sample at q, as stack indices
Yielding(q) ==
    {contenders[k].index : k \in {j \in 1 .. Len(contenders) :
                                    ContenderYield(j, q) # NO_DATA_VALUE}}

YieldOfIndex(index, q) ==
    LET k == CHOOSE j \in 1 .. Len(contenders) : contenders[j].index = index
    IN  ContenderYield(k, q)

SetMax(S) == CHOOSE x \in S : \A y \in S : y <= x
SetMin(S) == CHOOSE x \in S : \A y \in S : x <= y

GeneralPath == pc \notin {"start", "exits"} /\ requiresResample

\* a cell of the general path has just been finished (lines 931-936)
CellJustFinished ==
    /\ GeneralPath
    /\ \/ pc = "contenders" /\ r >= 1
       \/ pc = "column" /\ c >= 1

\* the cell that has just been finished
FinishedCell ==
    IF pc = "contenders" THEN <<c, r - 1>> ELSE <<c - 1, NumRows - 1>>

\* C1 -- priority invariant: in the general path with two or more contenders,
\* the contender sample a cell has received when it is finished is never that
\* of a contender B while a contender A of later stack position also yields a
\* valid sample there: it is the sample of the highest-indexed yielding
\* contender (and a request that was not cancelled did write that sample).
C1_PriorityInvariant ==
    (CellJustFinished /\ Len(contenders) >= 2) =>
        LET q == FinishedCell
            yielding == Yielding(q)
        IN  (cellLog[q].done /\ yielding # {}) =>
                LET top == SetMax(yielding) IN
                /\ \A b \in yielding \ {top} :
                        /\ cellLog[q].resolved # b
                        /\ cellLog[q].elevation # YieldOfIndex(b, q)
                /\ cellLog[q].resolved >= 0 =>
                        /\ cellLog[q].resolved = top
                        /\ cellLog[q].elevation = YieldOfIndex(top, q)
                /\ ~canceled => cellLog[q].resolved = top

\* C1 witness: a finished request in which two contenders both yield at a
\* cell and the cell received the later one's sample
C1_Witness ==
    /\ pc = "done" /\ ret = TRUE /\ GeneralPath
    /\ Len(contenders) >= 2
    /\ \E q \in Cells :
        /\ cellLog[q].done
        /\ Cardinality(Yielding(q)) >= 2
        /\ cellLog[q].resolved = SetMax(Yielding(q))
        /\ hf[q] = YieldOfIndex(SetMax(Yielding(q)), q)

\* the key a layer's data is non-fallback at
MappedKeyOf(index) == mapResolution(KeyLevel, NumColumns, layers[index + 1].tileSize)

OffsetEntry(index) ==
    offsets[CHOOSE j \in 1 .. Len(offsets) : offsets[j].index = index]

\* some cell received a valid sample of a non-fallback source: a contender
\* sample of a non-fallback raster, or an added sample of a non-fallback
\* offset layer
WroteRealSample ==
    \E q \in Cells :
        \/ cellLog[q].resolved >= 0 /\ ~cellLog[q].fallback
        \/ \E o \in cellLog[q].offs : ~OffsetEntry(o).isFallback

\* a createHeightfield call that the code counts as real data: a successful
\* fetch of a contender at its mapped (non-fallback) key, or any successful
\* fetch of an offset layer
RealFetch(call) ==
    /\ call.ok
    /\ \/ layers[call.index + 1].offset
       \/ call.level = MappedKeyOf(call.index)

\* C2 (as claimed) -- populateHeightfield returns true if and only if a sample
\* of a non-fallback source was actually written into the target (stated for
\* requests that are not cancelled).
C2_Original_TrueIffRealSampleWritten ==
    (pc = "done" /\ ~canceled) => (ret = TRUE <=> WroteRealSample)

\* C2 (amended) -- populateHeightfield returns true if and only if the request
\* is not cancelled and it fetched a non-fallback contender raster or any
\* offset raster (fallback or not), whether or not a sample of it was valid
\* or written.
C2_TrueIffRealRasterFetched ==
    pc = "done" =>
        (ret = TRUE <=>
            (~canceled /\ \E k \in 1 .. Len(calls) : RealFetch(calls[k])))

\* C2 witness: a request returned true although no cell received a sample of
\* a non-fallback source
C2_Witness ==
    /\ pc = "done" /\ ret = TRUE /\ ~WroteRealSample
    /\ \E q \in Cells : cellLog[q].resolved >= 0

\* the result is true exactly when one of the two contenders' rasters was
\* fetched at its mapped key
ContenderFetchedReal(index) ==
    \E k \in 1 .. Len(calls) :
        calls[k].index = index /\ calls[k].ok /\ calls[k].level = MappedKeyOf(index)

\* the contender of position k was consulted and its raster is fallback data
ContenderIsFallback(k) ==
    LET ld == contenders[k]
        f == FetchWithFallback(layers[ld.index + 1], ld.index, ld.key, FALSE, <<>>)
    IN  ld.isFallback \/ f.key # ld.key

\* two contenders, no offsets, finished and not cancelled; contenders[1] is the
\* higher-priority one
TwoContenderRun ==
    /\ pc = "done" /\ ~canceled
    /\ Len(contenders) = 2 /\ offsets = <<>>

OnlyLowerHasData(q) ==
    /\ ContenderYield(1, q) = NO_DATA_VALUE
    /\ ContenderYield(2, q) # NO_DATA_VALUE

\* C3 (as claimed) -- two contenders, only the lower-priority one has data at
\* a cell: the cell holds the lower layer's value, and the result is true if
\* and only if the lower layer's data was non-fallback.
C3_Original_RealIffLowerNonFallback ==
    TwoContenderRun =>
        \A q \in Cells :
            OnlyLowerHasData(q) =>
                /\ hf[q] = ContenderYield(2, q)
                /\ ret = TRUE <=> ~ContenderIsFallback(2)

\* C3 (amended) -- two contenders, only the lower-priority one has data at a
\* cell: the cell holds the lower layer's value, and the result is true if
\* and only if the lower layer's data was non-fallback or the higher layer's
\* raster was fetched at its non-fallback key (it counts as real data even
\* where it holds no data).
C3_LowerValueAndRealIffEitherNonFallback ==
    TwoContenderRun =>
        \A q \in Cells :
            OnlyLowerHasData(q) =>
                /\ hf[q] = ContenderYield(2, q)
                /\ cellLog[q].resolved = contenders[2].index
                /\ ret = TRUE <=>
                        \/ ~ContenderIsFallback(2)
                        \/ ContenderFetchedReal(contenders[1].index)

\* C3 witness: the higher contender's non-fallback raster holds no data at a
\* cell, the lower contender's fallback raster does, and the result is true
C3_Witness ==
    /\ TwoContenderRun
    /\ \E q \in Cells :
        /\ OnlyLowerHasData(q)
        /\ hf[q] = ContenderYield(2, q)
        /\ ContenderIsFallback(2)
        /\ ContenderFetchedReal(contenders[1].index)
        /\ ret = TRUE

\* every usable layer, contender or offset, reports fallback data
AllUsableFallback ==
    /\ \A k \in 1 .. Len(contenders) : contenders[k].isFallback
    /\ \A k \in 1 .. Len(offsets) : offsets[k].isFallback

TargetUntouched ==
    /\ hf = hfBefore
    /\ \A q \in Cells : resolutions[q] = Unwritten

\* C4 (as claimed) -- when all contender layers report only fallback data, or
\* there is no usable layer, populateHeightfield returns false and leaves the
\* target raster and the resolutions output unchanged.
C4_Original_ContendersFallbackUntouched ==
    (/\ pc = "done"
     /\ \/ NothingUsable
        \/ /\ Len(contenders) >= 1
           /\ \A k \in 1 .. Len(contenders) : contenders[k].isFallback) =>
        (ret = FALSE /\ TargetUntouched)

\* C4 (amended) -- when every usable layer, contenders and offsets alike,
\* reports only fallback data, or there is no usable layer, the request makes
\* no createHeightfield call, never writes the target raster or the
\* resolutions output, and returns false.
C4_AllFallbackUntouched ==
    (pc # "start" /\ (NothingUsable \/ AllUsableFallback)) =>
        /\ TargetUntouched
        /\ calls = <<>>
        /\ pc \in {"exits", "done"}
        /\ pc = "done" => ret = FALSE

\* C4 witness: a request with a fallback contender and a fallback offset
\* returned false
C4_Witness ==
    /\ pc = "done" /\ ret = FALSE /\ ~canceled
    /\ Len(contenders) >= 1 /\ Len(offsets) >= 1
    /\ AllUsableFallback
    /\ TargetUntouched

\* what offset layer k (a position in offsets) yields at cell q when fetched
\* by a request that is not cancelled
OffsetYield(k, q) ==
    LET ld == offsets[k]
        got == createHeightfield(layers[ld.index + 1], ld.index, ld.key, FALSE).value
    IN  IF got.valid THEN heightAt(got, q) ELSE NO_DATA_VALUE

\* the offset layers the on-top rule lets contribute to a cell whose winning
\* contender has stack index `resolved` (-1 for none), as stack indices
OnTopOffsets(q, resolved) ==
    {offsets[k].index : k \in {j \in 1 .. Len(offsets) :
        /\ resolved < 0 \/ offsets[j].index >= resolved
        /\ OffsetYield(j, q) # NO_DATA_VALUE
        /\ OffsetYield(j, q) # 0}}

RECURSIVE SumOffsets(_, _, _)
SumOffsets(base, S, q) ==
    IF S = {} THEN base
    ELSE LET o == CHOOSE x \in S : TRUE
             k == CHOOSE j \in 1 .. Len(offsets) : offsets[j].index = o
         IN  SumOffsets(FAdd(base, OffsetYield(k, q)), S \ {o}, q)

\* C5 -- on-top rule: in the general path an offset layer whose stack index is
\* below the index of the contender that won the cell is never applied to the
\* cell; when a cell is finished, the offsets applied are exactly those at or
\* above the winner (all of them when no contender won) whose sample is
\* neither zero nor no-data, and each has added its sample to the cell.
C5_OnTopRule ==
    CellJustFinished =>
        LET q == FinishedCell
            log == cellLog[q]
            onTop == OnTopOffsets(q, log.resolved)
        IN  /\ log.done
            /\ log.offs \subseteq onTop
            /\ \A o \in log.offs : log.resolved < 0 \/ o > log.resolved
            /\ ~canceled => log.offs = onTop
            /\ hf[q] = SumOffsets(IF log.resolved >= 0 THEN log.elevation
                                  ELSE hfBefore[q],
                                  log.offs, q)

\* C5 witness: a finished cell won by a contender, with an offset layer below
\* the winner that has a valid non-zero sample there and was not applied
C5_Witness ==
    /\ GeneralPath /\ pc = "done" /\ ret = TRUE
    /\ \E q \in Cells :
        /\ cellLog[q].done /\ cellLog[q].resolved >= 0
        /\ \E k \in 1 .. Len(offsets) :
            /\ offsets[k].index < cellLog[q].resolved
            /\ OffsetYield(k, q) # NO_DATA_VALUE /\ OffsetYield(k, q) # 0
            /\ offsets[k].index \notin cellLog[q].offs
            /\ hf[q] = cellLog[q].elevation

\* the resolutions of the sources that contributed to a cell: the winning
\* contender's actual key and the keys of the offsets applied
Contributors(q) ==
    (IF cellLog[q].resolved >= 0
     THEN {getResolutionForTileSize(cellLog[q].level)} ELSE {})
    \cup {getResolutionForTileSize(OffsetEntry(o).key) : o \in cellLog[q].offs}

ResolutionFilled(q) == cellLog[q].done /\ wantResolutions

\* C6 (as claimed) -- resolution monotonicity: the resolution reported for a
\* cell is never finer (numerically smaller) than the resolution of a source
\* that contributed to the cell; with offsets contributing it is the coarsest
\* of the contributors' resolutions.
C6_Original_NeverFinerThanContributor ==
    \A q \in Cells :
        (ResolutionFilled(q) /\ Contributors(q) # {}) =>
            /\ \A x \in Contributors(q) : resolutions[q] >= x
            /\ resolutions[q] = SetMax(Contributors(q))

\* C6 (amended) -- the resolution reported for a cell of the general path is
\* the finest (numerically smallest) of the resolutions of the winning
\* contender's actual key and of the keys of the offsets applied to the cell,
\* and FLT_MAX when nothing contributed; in the fast path it is the resolution
\* of the contender's key at every cell.
C6_FinestContributor ==
    \A q \in Cells :
        ResolutionFilled(q) =>
            resolutions[q] =
                IF requiresResample
                THEN SetMin(Contributors(q) \cup {FLT_MAX})
                ELSE getResolutionForTileSize(contenders[1].key)

\* C6 witness: a cell to which a contender and a coarser offset layer both
\* contributed reports the contender's (finer) resolution
C6_Witness ==
    /\ pc = "done" /\ ret = TRUE
    /\ \E q \in Cells :
        /\ ResolutionFilled(q)
        /\ cellLog[q].resolved >= 0
        /\ \E o \in cellLog[q].offs :
            getResolutionForTileSize(OffsetEntry(o).key) > resolutions[q]
        /\ resolutions[q] = getResolutionForTileSize(cellLog[q].level)

\* the cells in the order the general path visits them: columns outermost
CellOrder == [k \in 1 .. NumColumns * NumRows |->
                <<(k - 1) \div NumRows, (k - 1) % NumRows>>]

\* the general path (lines 761-936) of a request without offset layers that is
\* not cancelled, from cell k of CellOrder on
RECURSIVE GeneralRun(_, _, _, _)
GeneralRun(k, st, grid, res) ==
    IF k > Len(CellOrder) THEN [st |-> st, grid |-> grid, res |-> res]
    ELSE LET q == CellOrder[k]
             st1 == ContenderScan(1, [st EXCEPT !.resolved = 0 - 1,
                                                !.resolution = FLT_MAX,
                                                !.elevation = NO_DATA_VALUE],
                                  q, FALSE)
         IN  GeneralRun(k + 1, st1,
                        IF st1.resolved >= 0
                        THEN [grid EXCEPT ![q] = st1.elevation] ELSE grid,
                        IF wantResolutions
                        THEN [res EXCEPT ![q] = st1.resolution] ELSE res)

\* what the general path produces for the inputs of the current request
GeneralResult ==
    LET n == Len(contenders)
        st0 == [hfs |-> [k \in 1 .. n |-> INVALID],
                keys |-> [k \in 1 .. n |-> contenders[k].key],
                fb |-> [k \in 1 .. n |-> FALSE],
                failed |-> [k \in 1 .. n |-> FALSE],
                n |-> 0, real |-> FALSE, resolved |-> 0 - 1,
                resolution |-> FLT_MAX, elevation |-> NO_DATA_VALUE,
                level |-> InvalidKey, fallback |-> FALSE, log |-> <<>>]
        g == GeneralRun(1, st0, hfBefore, [q \in Cells |-> Unwritten])
    IN  [hf |-> resolveInvalidHeights(g.grid, NO_DATA_VALUE),
         resolutions |-> g.res, ret |-> g.st.real]

FastPathTaken == pc = "done" /\ ~requiresResample /\ ~canceled

\* C7 (as claimed) -- fast-path equivalence: with one contender, no offsets
\* and a source raster of the target's size, the target raster, the
\* resolutions output and the result of the fast-path copy equal, cell for
\* cell, what the general per-cell path produces for the same inputs,
\* including at cells where the source holds no-data.
C7_FastPathEquivalence ==
    FastPathTaken =>
        /\ hf = GeneralResult.hf
        /\ resolutions = GeneralResult.resolutions
        /\ ret = GeneralResult.ret


\* ============================================= the single-layer pipeline
\* the samples a driver's raster may hold
RawSamples == {NaN, NO_DATA_VALUE, 0 - 7, 0 - 6, 0 - 5, 42, 900, 901}

Pixels == 1 .. NumPixels

\* the layers the pipeline is called on: no-data value -7 or 42, valid range
\* [-5, 900]; closed; without a profile; a minimum level above the key; the
\* key outside the data extents (with and without a profile); a profile
\* other than the key's
PipelineLayers ==
    LET good == Layer(TRUE, FALSE, 0, NumPixels, 0, KeyLevel, "full") IN
    { good,
      [good EXCEPT !.noDataValue = 42],
      [good EXCEPT !.open = FALSE],
      [good EXCEPT !.profileValid = FALSE],
      [good EXCEPT !.minLevel = KeyLevel + 1],
      [good EXCEPT !.inExtents = FALSE],
      [good EXCEPT !.inExtents = FALSE, !.profileValid = FALSE],
      [good EXCEPT !.sameProfile = FALSE],
      [good EXCEPT !.image = TRUE],
      [good EXCEPT !.image = TRUE, !.open = FALSE],
      [good EXCEPT !.image = TRUE, !.profileValid = FALSE],
      [good EXCEPT !.image = TRUE, !.inExtents = FALSE],
      [good EXCEPT !.image = TRUE, !.sameProfile = FALSE] }

\* a driver: what createHeightfieldImplementation answers ("raster": ok with
\* a raster; "empty": ok without one; "failed"), the height of its rasters
\* (their width is NumPixels), whether it hands out the raster object it
\* holds or a fresh copy, and the highest level it has data for
Driver(answer, height, shares, dataTop) ==
    [answer |-> answer, width |-> NumPixels, height |-> height,
     shares |-> shares, dataTop |-> dataTop]

\* the sizes of the rasters of the drivers that answer with a raster of
\* another size than NumPixels x 1 or NumPixels x 0
DriverSizes ==
    {<<0, 1>>, <<1, 1>>, <<MaxDimension, MaxDimension>>,
     <<MaxDimension + 1, 1>>, <<NumPixels, MaxDimension + 1>>}

SameProfileDrivers ==
    {Driver("raster", h, sh, KeyLevel) : h \in {0, 1}, sh \in BOOLEAN}
    \cup {Driver("empty", 1, FALSE, KeyLevel),
          Driver("failed", 1, FALSE, KeyLevel)}
    \cup {[Driver("raster", s[2], FALSE, KeyLevel) EXCEPT !.width = s[1]] :
            s \in DriverSizes}

MosaicDrivers ==
    {Driver(a, h, FALSE, top) : a \in {"raster", "empty"}, h \in {0, 1},
                                top \in (0 - 1) .. KeyLevel}

PlainSamples == [i \in Pixels |-> 42]

\* an image driver: at levels >= clearFrom its images are transparent at
\* pixel 1, at levels >= wideFrom they are larger
ImageDriver(answer, dataTop, clearFrom) ==
    [answer |-> answer, height |-> 1, shares |-> FALSE, dataTop |-> dataTop,
     clearFrom |-> clearFrom, wideFrom |-> KeyLevel + 1]

\* the size of a driver's raster: some drivers have larger rasters for some
\* keys
TileWidth(wide) == IF wide THEN NumPixels + 1 ELSE NumPixels
TileHeight(wide) == IF wide THEN 2 ELSE 1

ImageDrivers ==
    {ImageDriver(a, top, KeyLevel) : a \in {"raster", "empty", "failed"},
                                     top \in {0 - 1, KeyLevel - 1, KeyLevel}}

PipelineInit ==
    /\ pLayer \in PipelineLayers
    /\ pKey = KeyLevel
    /\ \/ /\ pLayer.image
          /\ pDriver \in ImageDrivers
          /\ pStore = PlainSamples
          /\ pMosaic \in [numKeys : 0 .. 2, level : 0 .. KeyLevel]
          /\ pBuild = "unchecked"
       \/ /\ ~pLayer.image
          /\ pLayer.sameProfile
          /\ pDriver \in SameProfileDrivers
          /\ pStore \in (IF pDriver.answer = "raster" /\ pDriver.height = 1
                            /\ pDriver.width = NumPixels
                         THEN [Pixels -> RawSamples] ELSE {PlainSamples})
          /\ pMosaic = [numKeys |-> 0, level |-> 0]
          /\ pBuild = "unchecked"
       \/ /\ ~pLayer.image
          /\ ~pLayer.sameProfile
          /\ pDriver \in MosaicDrivers
          /\ pStore = PlainSamples
          /\ pMosaic \in [numKeys : 0 .. 2, level : 0 .. KeyLevel]
          /\ pBuild \in {"unchecked", "checked"}
    /\ pCanceled = FALSE
    /\ ppc = "idle"
    /\ pHf = INVALID
    /\ pAcquired = <<>>
    /\ pResults = <<>>
    /\ pLayers = <<>>
    /\ pDriverCalls = <<>>

\* createHeightfieldImplementation_internal(key, io), lines 414-426
DriverAnswer(driver, store, level) ==
    IF driver.answer = "failed" \/ level > driver.dataTop
    THEN Result(ResourceUnavailable, INVALID)
    ELSE IF driver.answer = "empty" THEN Result(Status_OK, INVALID)
    ELSE Result(Status_OK,
                Raster(driver.width, driver.height, level,
                       IF driver.height = 0 \/ driver.width = 0
                       THEN <<>> ELSE store))

\* faulty variant: the key is kept after a failed fetch
SubTileKeepsKey(level, failed) == level

\* lines 278-279: if (subTile.status.failed()) subKey.makeParent()
SubTileNextKey(level, failed) ==
    IF failed THEN MakeParent(level) ELSE level

\* lines 273-283, for one intersecting key: the walk to the first ancestor the
\* driver answers ok for; `returned` when the walk left the function on
\* cancellation
RECURSIVE SubTileWalk(_, _, _, _)
SubTileWalk(driver, store, level, cancel) ==
    IF ~KeyValid(level)
    THEN [key |-> level, ok |-> FALSE, value |-> INVALID, returned |-> FALSE]
    ELSE LET subTile == DriverAnswer(driver, store, level)
             subKey == SubTileNextKey(level, StatusFailed(subTile))
         IN  IF cancel
             THEN [key |-> subKey, ok |-> FALSE, value |-> INVALID,
                   returned |-> TRUE]
             ELSE IF StatusOk(subTile)
             THEN [key |-> subKey, ok |-> TRUE, value |-> subTile.value,
                   returned |-> FALSE]
             ELSE SubTileWalk(driver, store, subKey, cancel)

\* how often the walks of lines 271-283 invoke the driver: every intersecting
\* key walks like `w`, which started at `start`; a cancelled request leaves
\* after the first fetch
MosaicDriverCalls(mosaic, w) ==
    IF mosaic.numKeys = 0 THEN 0
    ELSE IF w.returned THEN 1
    ELSE mosaic.numKeys * (mosaic.level - w.key + (IF w.ok THEN 1 ELSE 0))

\* the driver is invoked `n` times more by the current call
DriverInvoked(n) ==
    pDriverCalls' = [pDriverCalls EXCEPT ![Len(pDriverCalls)] = @ + n]

NoMosaic == [aborted |-> FALSE, hf |-> INVALID]
MosaicAborted == [aborted |-> TRUE, hf |-> INVALID]

\* assembleHeightfield(key, io), lines 216-392.  Every intersecting key is
\* at mosaic.level and walks alike.  A mosaic is built only when a source
\* was found at the key's own level (line 287).  The sample points are
\* written past the end of a vector that was only reserved (lines 319, 336):
\* a build without bounds checks stores them in the reserved memory, the
\* sampling loop at line 347 visits no point of the empty vector, and the
\* heights read back at line 365 are the NO_DATA_VALUE stored; a build with
\* checked element access aborts.  A source without a raster is dereferenced
\* at line 305.
assembleHeightfield(layer, level, mosaic, driver, store, cancel, build) ==
    IF mosaic.numKeys = 0 THEN NoMosaic
    ELSE LET w == SubTileWalk(driver, store, mosaic.level, cancel) IN
         IF w.returned THEN NoMosaic
         ELSE IF ~(w.ok /\ w.key = level) THEN NoMosaic
         ELSE IF ~w.value.valid THEN MosaicAborted
         ELSE IF build = "checked" THEN MosaicAborted
         ELSE IF cancel THEN NoMosaic
         ELSE [aborted |-> FALSE,
               hf |-> Raster(w.value.width, w.value.height, level,
                             [i \in 1 .. w.value.width * w.value.height |->
                                NO_DATA_VALUE])]

\* a call returns `res`, having acquired the raster `acquired`
PipelineReturns(res, acquired) ==
    /\ pResults' = Append(pResults, res)
    /\ pAcquired' = Append(pAcquired, acquired)
    /\ pLayers' = Append(pLayers, pLayer)
    /\ ppc' = "idle"

\* lines 428-446: the call and its early returns
PipelineCall ==
    /\ ppc = "idle"
    /\ ~pLayer.image
    /\ Len(pResults) < 2
    /\ pHf' = INVALID
    /\ pDriverCalls' = Append(pDriverCalls, 0)
    /\ LET g == PipelineGuard(pLayer, pKey) IN
       IF g.status # "go" THEN PipelineReturns(g, INVALID)
       ELSE /\ ppc' = "acquire"
            /\ UNCHANGED <<pResults, pAcquired, pLayers>>
    /\ UNCHANGED <<pLayer, pKey, pDriver, pStore, pMosaic, pBuild, pCanceled>>
    /\ UNCHANGED <<popVars, walkVars, mosaicVars, compVars, layerVars, propVars, gdalVars, spacingVars, windowVars>>

\* lines 448-456: the key is in the layer's profile
AcquireSameProfile ==
    /\ ppc = "acquire"
    /\ pLayer.sameProfile
    /\ DriverInvoked(1)
    /\ LET drv == DriverAnswer(pDriver, pStore, pKey) IN
       IF StatusFailed(drv)
       THEN /\ pHf' = INVALID
            /\ PipelineReturns(drv, INVALID)
       ELSE /\ pHf' = drv.value
            /\ ppc' = "finish"
            /\ UNCHANGED <<pResults, pAcquired, pLayers>>
    /\ UNCHANGED <<pLayer, pKey, pDriver, pStore, pMosaic, pBuild, pCanceled>>
    /\ UNCHANGED <<popVars, walkVars, mosaicVars, compVars, layerVars, propVars, gdalVars, spacingVars, windowVars>>

\* lines 457-462: the key is in another profile
AcquireMosaic ==
    /\ ppc = "acquire"
    /\ ~pLayer.sameProfile
    /\ LET m == assembleHeightfield(pLayer, pKey, pMosaic, pDriver, pStore,
                                    pCanceled, pBuild)
       IN  /\ pHf' = m.hf
           /\ ppc' = IF m.aborted THEN "aborted" ELSE "finish"
    /\ DriverInvoked(MosaicDriverCalls(
            pMosaic, SubTileWalk(pDriver, pStore, pMosaic.level, pCanceled)))
    /\ UNCHANGED <<pLayer, pKey, pDriver, pStore, pMosaic, pBuild, pCanceled,
                   pResults, pAcquired, pLayers>>
    /\ UNCHANGED <<popVars, walkVars, mosaicVars, compVars, layerVars, propVars, gdalVars, spacingVars, windowVars>>

\* lines 464-491; a raster the driver shares is post-processed in place
PipelineReturn ==
    /\ ppc = "finish"
    /\ LET res == PipelineFinish(pLayer, pHf, pCanceled) IN
        /\ PipelineReturns(res, pHf)
        /\ pStore' = IF pDriver.shares /\ pLayer.sameProfile
                        /\ StatusOk(res) /\ res.value.valid
                     THEN res.value.px ELSE pStore
    /\ UNCHANGED <<pLayer, pKey, pDriver, pMosaic, pBuild, pCanceled, pHf,
                   pDriverCalls>>
    /\ UNCHANGED <<popVars, walkVars, mosaicVars, compVars, layerVars, propVars, gdalVars, spacingVars, windowVars>>

\* ------------------------------------------- the image layer's pipeline
\* a pixel: a colour and an alpha; alpha 0 is transparent (no data)
Pixel(rgb, a) == [rgb |-> rgb, a |-> a]

ImageSamples(driver, level) ==
    [i \in Pixels |->
        Pixel(100 + level, IF i = 1 /\ level >= driver.clearFrom THEN 0 ELSE 1)]

\* createImageImplementation(key, io)
createImageImplementation(driver, level) ==
    IF driver.answer = "failed" \/ level > driver.dataTop
    THEN Result(ResourceUnavailable, INVALID)
    ELSE IF driver.answer = "empty" THEN Result(Status_OK, INVALID)
    ELSE Result(Status_OK,
                Raster(TileWidth(level >= driver.wideFrom),
                       TileHeight(level >= driver.wideFrom), level,
                       ImageSamples(driver, level)))

\* Profile::getEquivalentLOD: the level in the layer's profile that matches
\* `level` of the key's profile; the requested key (level KeyLevel) matches
\* mosaic.level
getEquivalentLOD(mosaic, level) == Max(0, level + mosaic.level - KeyLevel)

\* ImageLayer.cpp lines 207-217: the levels of the intersecting keys of the
\* key and of its ancestors down to level 1, finest first
RECURSIVE AncestorLevels(_, _)
AncestorLevels(mosaic, level) ==
    IF level <= 0 THEN <<>>
    ELSE <<getEquivalentLOD(mosaic, level)>>
         \o AncestorLevels(mosaic, MakeParent(level))

\* lines 199-249: the levels of intersectingKeys, each standing for
\* mosaic.numKeys keys; for a key of level zero the keys of the equivalent
\* level are kept whether or not they may have data
IntersectingLevels(mosaic, level) ==
    IF mosaic.numKeys = 0 THEN <<>>
    ELSE IF level > 0 THEN AncestorLevels(mosaic, level)
    ELSE <<getEquivalentLOD(mosaic, level)>>

\* lines 252-273: the sources collected for the levels from position k on;
\* `seen` holds the levels the dependency cache already answers for
RECURSIVE CollectSources(_, _, _, _, _)
CollectSources(layer, driver, levels, k, seen) ==
    IF k > Len(levels) THEN [sources |-> <<>>, fetched |-> {}]
    ELSE LET lvl == levels[k]
             got == createImageImplementation(driver, lvl)
             usable == StatusOk(got) /\ got.value.valid
             rest == CollectSources(layer, driver, levels, k + 1,
                        IF isKeyInLegalRange(layer, lvl) /\ usable
                        THEN seen \cup {lvl} ELSE seen)
         IN  IF ~isKeyInLegalRange(layer, lvl) THEN rest
             ELSE IF lvl \in seen
             THEN [rest EXCEPT !.sources = <<got.value>> \o @]
             ELSE [sources |-> (IF usable THEN <<got.value>> ELSE <<>>)
                               \o rest.sources,
                   fetched |-> rest.fetched \cup {k}]

\* lines 336-351: the first source whose pixel is not transparent wins; with
\* none, the pixel read last stays
RECURSIVE ReadSources(_, _, _, _)
ReadSources(sources, k, i, pixel) ==
    IF k > Len(sources) THEN pixel
    ELSE LET read == sources[k].px[i] IN
         IF read.a > 0 THEN read
         ELSE ReadSources(sources, k + 1, i, read)

\* faulty variant: the mosaic takes the size of its first source
MosaicSizeOfFirst(srcs) ==
    [width |-> IF Len(srcs) = 0 THEN 0 ELSE srcs[1].width,
     height |-> IF Len(srcs) = 0 THEN 0 ELSE srcs[1].height]

\* ElevationLayer.cpp lines 301-310, ImageLayer.cpp lines 278-286: the output
\* size is the largest width and the largest height of the sources
MosaicSize(srcs) ==
    [width |-> SetMax({0} \cup {srcs[k].width : k \in 1 .. Len(srcs)}),
     height |-> SetMax({0} \cup {srcs[k].height : k \in 1 .. Len(srcs)})]

\* assembleImage(key, io), lines 191-365: the composite image (INVALID for
\* null) and the number of driver calls made
assembleImage(layer, level, mosaic, driver, cancel) ==
    LET levels == IntersectingLevels(mosaic, level)
        got == CollectSources(layer, driver, levels, 1, {})
        driverCalls == mosaic.numKeys * Cardinality(got.fetched)
        size == MosaicSize(got.sources)
        output ==
            IF Len(got.sources) = 0 THEN INVALID
            ELSE Raster(size.width, size.height, level,
                        [i \in Pixels |->
                            ReadSources(got.sources, 1, i, Pixel(0, 0))])
    IN  [image |-> IF cancel THEN INVALID ELSE output, calls |-> driverCalls,
         sources |-> got.sources]

\* ImageLayer::createImageInKeyProfile(key, io), lines 143-180
createImageInKeyProfile(layer, level, mosaic, driver, cancel) ==
    IF ~layer.open THEN [res |-> Result(Status_OK, INVALID), calls |-> 0]
    ELSE IF ~isKeyInLegalRange(layer, level)
    THEN [res |-> Result(Status_OK, INVALID), calls |-> 0]
    ELSE IF ~layer.profileValid \/ layer.sameProfile
    THEN [res |-> createImageImplementation(driver, level), calls |-> 1]
    ELSE LET m == assembleImage(layer, level, mosaic, driver, cancel)
         IN  [res |-> Result(Status_OK, m.image), calls |-> m.calls]

\* an image layer is asked for the tile: the whole call
CreateImage ==
    /\ ppc = "idle"
    /\ pLayer.image
    /\ Len(pResults) < 2
    /\ LET out == createImageInKeyProfile(pLayer, pKey, pMosaic, pDriver,
                                          pCanceled)
       IN  /\ pDriverCalls' = Append(pDriverCalls, out.calls)
           /\ pHf' = INVALID
           /\ PipelineReturns(out.res, INVALID)
    /\ UNCHANGED <<pLayer, pKey, pDriver, pStore, pMosaic, pBuild, pCanceled>>
    /\ UNCHANGED <<popVars, walkVars, mosaicVars, compVars, layerVars, propVars, gdalVars, spacingVars, windowVars>>

\* the caller cancels the request
PipelineCancel ==
    /\ \/ ppc \in {"acquire", "finish"}
       \/ ppc = "idle" /\ pLayer.image /\ Len(pResults) < 2
    /\ ~pCanceled
    /\ pCanceled' = TRUE
    /\ UNCHANGED <<pLayer, pKey, pDriver, pStore, pMosaic, pBuild, ppc, pHf,
                   pAcquired, pResults, pLayers, pDriverCalls>>
    /\ UNCHANGED <<popVars, walkVars, mosaicVars, compVars, layerVars, propVars, gdalVars, spacingVars, windowVars>>

\* Layer::close(), Layer.cpp lines 128-137, between two calls
PipelineClose ==
    /\ ppc = "idle"
    /\ pLayer.open
    /\ pLayer' = [pLayer EXCEPT !.open = FALSE]
    /\ UNCHANGED <<pKey, pDriver, pStore, pMosaic, pBuild, pCanceled, ppc,
                   pHf, pAcquired, pResults, pLayers, pDriverCalls>>
    /\ UNCHANGED <<popVars, walkVars, mosaicVars, compVars, layerVars, propVars, gdalVars, spacingVars, windowVars>>

InitPipeline ==
    PipelineInit /\ PopulateIdle /\ WalkIdle /\ MosaicIdle /\ CompositeIdle /\ LayerIdle /\ PropertiesIdle /\ GdalIdle /\ SpacingIdle /\ WindowIdle

NextPipeline ==
    \/ PipelineCall
    \/ AcquireSameProfile
    \/ AcquireMosaic
    \/ PipelineReturn
    \/ CreateImage
    \/ PipelineCancel
    \/ PipelineClose

SpecPipeline == InitPipeline /\ [][NextPipeline]_vars

\* ------------------------------------------ the pipeline's properties
\* a sample that is NaN, the layer's no-data value, or outside the layer's
\* valid range
BadSample(layer, h) ==
    \/ h = NaN
    \/ h = layer.noDataValue
    \/ h # NaN /\ (h < layer.minValidValue \/ h > layer.maxValidValue)

ReturnedRaster(k) ==
    /\ ~pLayers[k].image
    /\ pResults[k].status = Status_OK /\ pResults[k].value.valid

\* C8 -- no-data normalization: a raster that createHeightfieldInKeyProfile
\* returns with ok status, on the same-profile path or the mosaic path, holds
\* no sample that is NaN, the layer's no-data value or outside
\* [minValidValue, maxValidValue] except the sentinel NO_DATA_VALUE itself:
\* every such sample of the raster acquired is the sentinel in the raster
\* returned, and every other sample is as acquired.
C8_NoDataNormalization ==
    \A k \in 1 .. Len(pResults) :
        ReturnedRaster(k) =>
            LET got == pResults[k].value
                acquired == pAcquired[k]
            IN  /\ acquired.valid
                /\ got.width = acquired.width /\ got.height = acquired.height
                /\ DOMAIN got.px = DOMAIN acquired.px
                /\ \A i \in DOMAIN got.px :
                    /\ BadSample(pLayers[k], got.px[i]) =>
                            got.px[i] = NO_DATA_VALUE
                    /\ BadSample(pLayers[k], acquired.px[i]) =>
                            got.px[i] = NO_DATA_VALUE
                    /\ ~BadSample(pLayers[k], acquired.px[i]) =>
                            got.px[i] = acquired.px[i]

\* C8 witness: a raster returned whose acquired samples held a NaN or the
\* layer's no-data value next to a valid sample; the one is now the sentinel,
\* the other is kept
C8_Witness ==
    \E k \in 1 .. Len(pResults) :
        /\ ReturnedRaster(k)
        /\ \E i, j \in DOMAIN pAcquired[k].px :
            /\ pAcquired[k].px[i] \in {NaN, pLayers[k].noDataValue}
            /\ pResults[k].value.px[i] = NO_DATA_VALUE
            /\ ~BadSample(pLayers[k], pAcquired[k].px[j])
            /\ pResults[k].value.px[j] = pAcquired[k].px[j]

\* the mosaic path returns a raster too
C8_MosaicReturned ==
    \E k \in 1 .. Len(pResults) :
        ReturnedRaster(k) /\ ~pLayers[k].sameProfile

\* two calls were made on a layer that was open and the same at both, and the
\* request was never cancelled
TwoCallsUnchangedLayer ==
    /\ Len(pResults) = 2
    /\ ~pCanceled
    /\ pLayers[1].open
    /\ pLayers[2] = pLayers[1]

\* C10 -- idempotence: two calls of createHeightfieldInKeyProfile with the
\* same key on a layer that stays open and unchanged, without cancellation,
\* return the same status and rasters equal sample for sample, also when the
\* first call post-processed in place the raster the driver hands out again.
C10_Idempotence ==
    TwoCallsUnchangedLayer =>
        /\ pResults[1].status = pResults[2].status
        /\ pResults[1].value = pResults[2].value

\* C10 witness: two calls returned rasters from a driver that hands out the
\* same raster object; the first call replaced a sample in place, so the
\* second call acquired another raster than the first
C10_Witness ==
    /\ TwoCallsUnchangedLayer
    /\ pDriver.shares
    /\ ReturnedRaster(1) /\ ReturnedRaster(2)
    /\ pAcquired[1] # pAcquired[2]
    /\ pAcquired[2] = pResults[1].value
    /\ pStore = pResults[2].value.px

\* ====================================================== the parent walks
\* the layers walked: open or closed, legal from level 0 or 1, a driver with
\* data up to some level or with none
WalkLayers ==
    {Layer(open, FALSE, minLevel, NumColumns, 0, top, "full") :
        open \in BOOLEAN, minLevel \in 0 .. 1, top \in (0 - 1) .. KeyLevel}

\* "assembleImage": the key's level is above zero (ImageLayer.cpp line 207);
\* "assembleImageRoot": it is zero, and wStart is the equivalent level of
\* detail in the layer's profile (line 225)
WalkLoops == {"assembleHeightfield", "populateHeightfield", "assembleImage",
              "assembleImageRoot"}

WalkInit ==
    /\ wLoop \in WalkLoops
    /\ wLayer \in WalkLayers
    /\ wStart \in (IF wLoop = "assembleImage" THEN 1 ELSE 0) .. KeyLevel
    /\ wKey = wStart
    /\ wOk = FALSE
    /\ wAttempts = 0
    /\ wKeys = <<>>
    /\ wTiles = 0
    /\ wCanceled = FALSE
    /\ wpc = "loop"

WalkDriver(layer) == Driver("raster", 1, FALSE, layer.dataTop)

\* ElevationLayer.cpp lines 275-282: one iteration of assembleHeightfield's
\* walk for an intersecting key
SubTileFetch ==
    /\ wLoop = "assembleHeightfield" /\ wpc = "loop"
    /\ KeyValid(wKey) /\ ~wOk
    /\ LET subTile == DriverAnswer(WalkDriver(wLayer), PlainSamples, wKey) IN
        /\ wOk' = StatusOk(subTile)
        /\ wKey' = SubTileNextKey(wKey, StatusFailed(subTile))
    /\ wAttempts' = wAttempts + 1
    /\ wpc' = IF wCanceled THEN "returned" ELSE "loop"
    /\ UNCHANGED <<wLoop, wLayer, wStart, wKeys, wTiles, wCanceled>>
    /\ UNCHANGED <<popVars, pipeVars, mosaicVars, compVars, layerVars, propVars, gdalVars, spacingVars, windowVars>>

\* line 275: the loop's condition fails
SubTileExit ==
    /\ wLoop = "assembleHeightfield" /\ wpc = "loop"
    /\ ~(KeyValid(wKey) /\ ~wOk)
    /\ wpc' = "exited"
    /\ UNCHANGED <<wLoop, wLayer, wStart, wKey, wOk, wAttempts, wKeys, wTiles,
                   wCanceled>>
    /\ UNCHANGED <<popVars, pipeVars, mosaicVars, compVars, layerVars, propVars, gdalVars, spacingVars, windowVars>>

\* ElevationLayer.cpp lines 818-825: one iteration of populateHeightfield's
\* walk for a contender
ContenderFetch ==
    /\ wLoop = "populateHeightfield" /\ wpc = "loop"
    /\ ~wOk /\ KeyValid(wKey) /\ isKeyInLegalRange(wLayer, wKey)
    /\ LET layerHF == createHeightfield(wLayer, 0, wKey, wCanceled).value IN
        /\ wOk' = layerHF.valid
        /\ wKey' = IF ~layerHF.valid THEN MakeParent(wKey) ELSE wKey
    /\ wAttempts' = wAttempts + 1
    /\ UNCHANGED <<wLoop, wLayer, wStart, wKeys, wTiles, wCanceled, wpc>>
    /\ UNCHANGED <<popVars, pipeVars, mosaicVars, compVars, layerVars, propVars, gdalVars, spacingVars, windowVars>>

\* line 818: the loop's condition fails
ContenderExit ==
    /\ wLoop = "populateHeightfield" /\ wpc = "loop"
    /\ ~(~wOk /\ KeyValid(wKey) /\ isKeyInLegalRange(wLayer, wKey))
    /\ wpc' = "exited"
    /\ UNCHANGED <<wLoop, wLayer, wStart, wKey, wOk, wAttempts, wKeys, wTiles,
                   wCanceled>>
    /\ UNCHANGED <<popVars, pipeVars, mosaicVars, compVars, layerVars, propVars, gdalVars, spacingVars, windowVars>>

\* TileLayer::mayHaveData(key)
mayHaveData(layer, level) == level <= layer.dataTop

\* ImageLayer.cpp lines 210-216: one iteration of the ancestor collection;
\* getIntersectingKeys yields the key of the level
AncestorCollect ==
    /\ wLoop = "assembleImage" /\ wpc = "loop"
    /\ wKey > 0
    /\ wKeys' = Append(wKeys, wKey)
    /\ wKey' = MakeParent(wKey)
    /\ wAttempts' = wAttempts + 1
    /\ UNCHANGED <<wLoop, wLayer, wStart, wOk, wTiles, wCanceled, wpc>>
    /\ UNCHANGED <<popVars, pipeVars, mosaicVars, compVars, layerVars, propVars, gdalVars, spacingVars, windowVars>>

\* ImageLayer.cpp lines 229-247: one iteration of the search for a level
\* whose tiles may have data
EquivalentLODScan ==
    /\ wLoop = "assembleImageRoot" /\ wpc = "loop"
    /\ wTiles = 0 /\ wKey >= 0
    /\ wKeys' = <<wKey>>
    /\ wTiles' = IF mayHaveData(wLayer, wKey) THEN 1 ELSE 0
    /\ wKey' = wKey - 1
    /\ wAttempts' = wAttempts + 1
    /\ UNCHANGED <<wLoop, wLayer, wStart, wOk, wCanceled, wpc>>
    /\ UNCHANGED <<popVars, pipeVars, mosaicVars, compVars, layerVars, propVars, gdalVars, spacingVars, windowVars>>

\* lines 210 and 229: the loop's condition fails
CollectionExit ==
    /\ wpc = "loop"
    /\ \/ wLoop = "assembleImage" /\ ~(wKey > 0)
       \/ wLoop = "assembleImageRoot" /\ ~(wTiles = 0 /\ wKey >= 0)
    /\ wpc' = "exited"
    /\ UNCHANGED <<wLoop, wLayer, wStart, wKey, wOk, wAttempts, wKeys, wTiles,
                   wCanceled>>
    /\ UNCHANGED <<popVars, pipeVars, mosaicVars, compVars, layerVars, propVars, gdalVars, spacingVars, windowVars>>

\* the caller cancels the request
WalkCancel ==
    /\ wpc = "loop"
    /\ ~wCanceled
    /\ wCanceled' = TRUE
    /\ UNCHANGED <<wLoop, wLayer, wStart, wKey, wOk, wAttempts, wKeys, wTiles,
                   wpc>>
    /\ UNCHANGED <<popVars, pipeVars, mosaicVars, compVars, layerVars, propVars, gdalVars, spacingVars, windowVars>>

InitWalk ==
    WalkInit /\ PopulateIdle /\ PipelineIdle /\ MosaicIdle /\ CompositeIdle /\ LayerIdle /\ PropertiesIdle /\ GdalIdle /\ SpacingIdle /\ WindowIdle

NextWalk ==
    \/ SubTileFetch
    \/ SubTileExit
    \/ ContenderFetch
    \/ ContenderExit
    \/ AncestorCollect
    \/ EquivalentLODScan
    \/ CollectionExit
    \/ WalkCancel

SpecWalk == InitWalk /\ [][NextWalk]_vars

\* ------------------------------------------------ the walks' properties
\* the key of a walk that started at level `start` and failed `failed` times
KeyAfter(start, failed) ==
    IF failed > start THEN InvalidKey ELSE start - failed

FailedAttempts == wAttempts - (IF wOk THEN 1 ELSE 0)

FetchWalk == wLoop \in {"assembleHeightfield", "populateHeightfield"}

\* C9 -- fallback termination: every parent walk (assembleHeightfield's per
\* intersecting key, populateHeightfield's per contender, assembleImage's
\* collection of ancestors) makes at most level+1 attempts from a starting
\* key of that level: every failed attempt lowers the key's level by one, the
\* key is invalid after level+1 failures, and no attempt is made on an
\* invalid key -- with no data at any ancestor and without cancellation too.
C9_WalkBound ==
    wLoop \in WalkLoops =>
        /\ wAttempts <= wStart + 1
        /\ FetchWalk => wKey = KeyAfter(wStart, FailedAttempts)
        /\ ~FetchWalk => wKey = wStart - wAttempts
        /\ (wpc = "exited" /\ FetchWalk /\ ~wOk /\ ~KeyValid(wKey)) =>
                wAttempts = wStart + 1
        /\ ENABLED (SubTileFetch \/ ContenderFetch) => KeyValid(wKey)

\* C9 witness: a walk from a key above the root found no data at any
\* ancestor, was never cancelled, and ended on the invalid key after level+1
\* attempts
C9_Witness ==
    /\ wLoop = "assembleHeightfield"
    /\ wpc = "exited"
    /\ wStart >= 1
    /\ ~wCanceled /\ ~wOk
    /\ wKey = InvalidKey
    /\ wAttempts = wStart + 1

\* ==================================================== the mosaic assembler
\* assembleHeightfield (ElevationLayer.cpp lines 216-392) and assembleImage
\* (ImageLayer.cpp lines 191-365), statement by statement, with the
\* cancellation token set at any moment by the caller.

\* what the elevation driver holds for an intersecting key: data for the
\* key's ancestors up to level `top`, without data at pixel 1 when `hole`,
\* in larger rasters when `wide`
Tile(top, hole, wide) == [top |-> top, hole |-> hole, wide |-> wide]

\* the raster of the ancestor at `level` of intersecting key `i`
TileRaster(tile, i, level) ==
    Raster(TileWidth(tile.wide), TileHeight(tile.wide), level,
           [j \in Pixels |->
               IF tile.hole /\ j = 1 THEN NO_DATA_VALUE ELSE 10 * level + i])

\* createHeightfieldImplementation_internal for that ancestor
TileAnswer(tile, i, level) ==
    IF level > tile.top THEN Result(ResourceUnavailable, INVALID)
    ELSE Result(Status_OK, TileRaster(tile, i, level))

MosaicLayers ==
    LET good == Layer(TRUE, FALSE, 0, NumPixels, 0, KeyLevel, "full") IN
    {good, [good EXCEPT !.minLevel = KeyLevel]}

MosaicInit ==
    /\ mKind \in {"heightfield", "image"}
    /\ mKey \in {0, KeyLevel}
    /\ mMosaic \in [numKeys : 0 .. MaxKeys, level : 0 .. KeyLevel]
    /\ \/ /\ mKind = "heightfield"
          /\ mLayer = Layer(TRUE, FALSE, 0, NumPixels, 0, KeyLevel, "full")
          /\ mTiles \in [1 .. mMosaic.numKeys ->
                            {Tile(top, hole, wide) :
                                top \in (0 - 1) .. getEquivalentLOD(mMosaic, mKey),
                                hole \in BOOLEAN, wide \in BOOLEAN}]
          /\ mDriver = ImageDriver("failed", 0 - 1, 0)
          /\ mBuild \in {"unchecked", "checked"}
       \/ /\ mKind = "image"
          /\ mLayer \in MosaicLayers
          /\ mTiles = <<>>
          /\ mDriver \in {[ImageDriver(a, top, clear) EXCEPT !.wideFrom = wide] :
                            a \in {"raster", "empty"},
                            top \in (0 - 1) .. KeyLevel,
                            clear \in {0, KeyLevel, KeyLevel + 1},
                            wide \in {1, KeyLevel + 1}}
          /\ mBuild = "unchecked"
    /\ mCanceled = FALSE
    /\ mpc = "keys"
    /\ intersectingKeys = <<>> /\ mIdx = 0 /\ mSubKey = InvalidKey
    /\ mSources = <<>> /\ hasAtLeastOneSourceAtTargetLOD = FALSE
    /\ mCached = {}
    /\ mOutput = INVALID

\* the sequence of `n` copies of `x`
Repeat(x, n) == [k \in 1 .. n |-> x]

RECURSIVE Flatten(_)
Flatten(seqs) ==
    IF seqs = <<>> THEN <<>> ELSE Head(seqs) \o Flatten(Tail(seqs))

\* the next key of the walk after the one at mIdx has been dealt with
NextIntersectingKey ==
    /\ mIdx' = mIdx + 1
    /\ mSubKey' = IF mIdx + 1 <= Len(intersectingKeys)
                  THEN intersectingKeys[mIdx + 1] ELSE InvalidKey
    /\ mpc' = IF mIdx + 1 <= Len(intersectingKeys) THEN "fetch" ELSE "build"

\* assembleHeightfield lines 219-226 and 265-267: the intersecting keys, all
\* at the level that matches the key's
HeightfieldKeys ==
    /\ mpc = "keys"
    /\ mKind = "heightfield"
    /\ LET keys == Repeat(getEquivalentLOD(mMosaic, mKey), mMosaic.numKeys)
       IN  /\ intersectingKeys' = keys
           /\ mIdx' = 1
           /\ mSubKey' = IF Len(keys) > 0 THEN keys[1] ELSE InvalidKey
           /\ mpc' = IF Len(keys) > 0 THEN "fetch" ELSE "final"
    /\ UNCHANGED <<mKind, mLayer, mKey, mMosaic, mTiles, mDriver, mBuild,
                   mCanceled, mSources, hasAtLeastOneSourceAtTargetLOD,
                   mCached, mOutput>>
    /\ UNCHANGED <<popVars, pipeVars, walkVars, compVars, layerVars, propVars, gdalVars, spacingVars, windowVars>>

\* lines 271-295: one iteration of the walk of the current intersecting key,
\* and what follows it when it is the walk's last
HeightfieldWalk ==
    /\ mpc = "fetch"
    /\ mKind = "heightfield"
    /\ LET subTile == TileAnswer(mTiles[mIdx], mIdx, mSubKey)
           next == SubTileNextKey(mSubKey, StatusFailed(subTile))
       IN  IF mCanceled
           THEN /\ mpc' = "returned"
                /\ mOutput' = INVALID
                /\ UNCHANGED <<mIdx, mSubKey, mSources,
                               hasAtLeastOneSourceAtTargetLOD>>
           ELSE IF StatusOk(subTile)
           THEN /\ hasAtLeastOneSourceAtTargetLOD' =
                    (hasAtLeastOneSourceAtTargetLOD \/ next = mKey)
                /\ mSources' = Append(mSources, subTile.value)
                /\ mOutput' = mOutput
                /\ NextIntersectingKey
           ELSE IF KeyValid(next)
           THEN /\ mSubKey' = next
                /\ UNCHANGED <<mIdx, mpc, mSources, mOutput,
                               hasAtLeastOneSourceAtTargetLOD>>
           ELSE /\ NextIntersectingKey
                /\ UNCHANGED <<mSources, mOutput,
                               hasAtLeastOneSourceAtTargetLOD>>
    /\ UNCHANGED <<mKind, mLayer, mKey, mMosaic, mTiles, mDriver, mBuild,
                   mCanceled, intersectingKeys, mCached>>
    /\ UNCHANGED <<popVars, pipeVars, walkVars, compVars, layerVars, propVars, gdalVars, spacingVars, windowVars>>

\* GeoHeightfield::SortByResolutionFunctor orders finer rasters first
FinestFirst(seq) ==
    \A a, b \in 1 .. Len(seq) : a < b => seq[a].level >= seq[b].level

\* std::sort, line 314: the orders it may leave the sources in
SortedByResolution(seq) ==
    {[k \in 1 .. Len(seq) |-> seq[f[k]]] :
        f \in {g \in [1 .. Len(seq) -> 1 .. Len(seq)] :
                /\ \A a, b \in 1 .. Len(seq) : a # b => g[a] # g[b]
                /\ FinestFirst([k \in 1 .. Len(seq) |-> seq[g[k]]])}}

\* lines 318-338: the working set of points: room for cols * rows points is
\* reserved, the vector stays empty, and the grid is stored in the reserved
\* room
GridPoints(cols, rows) ==
    [size |-> 0, room |-> [i \in 1 .. cols * rows |-> NO_DATA_VALUE]]

\* line 349: the first source, in the order of the vector, whose height at
\* the point is not NO_DATA_VALUE
RECURSIVE HeightAtPoint(_, _, _)
HeightAtPoint(srcs, k, i) ==
    IF k > Len(srcs) THEN NO_DATA_VALUE
    ELSE IF srcs[k].px[i] # NO_DATA_VALUE THEN srcs[k].px[i]
    ELSE HeightAtPoint(srcs, k + 1, i)

\* lines 346-352: every point of the vector is sampled
SampleHeights(points, srcs) ==
    [points EXCEPT !.room =
        [i \in DOMAIN @ |->
            IF i <= points.size THEN HeightAtPoint(srcs, 1, i) ELSE @[i]]]

\* lines 297-369: the mosaic is built from the sources
HeightfieldBuild ==
    /\ mpc = "build"
    /\ mKind = "heightfield"
    /\ IF ~hasAtLeastOneSourceAtTargetLOD
       THEN /\ mpc' = "final"
            /\ UNCHANGED <<mSources, mOutput>>
       ELSE LET cols == MosaicSize(mSources).width
                rows == MosaicSize(mSources).height
            IN  \E sorted \in SortedByResolution(mSources) :
                    /\ mSources' = sorted
                    /\ IF mBuild = "checked"
                       THEN /\ mpc' = "aborted"
                            /\ mOutput' = mOutput
                       ELSE /\ mpc' = "final"
                            /\ mOutput' =
                                Raster(cols, rows, mKey,
                                       SampleHeights(GridPoints(cols, rows),
                                                     sorted).room)
    /\ UNCHANGED <<mKind, mLayer, mKey, mMosaic, mTiles, mDriver, mBuild,
                   mCanceled, intersectingKeys, mIdx, mSubKey,
                   hasAtLeastOneSourceAtTargetLOD, mCached>>
    /\ UNCHANGED <<popVars, pipeVars, walkVars, compVars, layerVars, propVars, gdalVars, spacingVars, windowVars>>

\* faulty variant: the mosaic is returned whatever the token says
MosaicFinishUnchecked ==
    /\ mpc = "final"
    /\ mOutput' = mOutput
    /\ mpc' = "returned"
    /\ UNCHANGED <<mKind, mLayer, mKey, mMosaic, mTiles, mDriver, mBuild,
                   mCanceled, intersectingKeys, mIdx, mSubKey, mSources,
                   hasAtLeastOneSourceAtTargetLOD, mCached>>
    /\ UNCHANGED <<popVars, pipeVars, walkVars, compVars, layerVars, propVars, gdalVars, spacingVars, windowVars>>

\* lines 384-391, and ImageLayer.cpp lines 357-364: the last test of the
\* token, and the return
MosaicFinish ==
    /\ mpc = "final"
    /\ mOutput' = IF mCanceled THEN INVALID ELSE mOutput
    /\ mpc' = "returned"
    /\ UNCHANGED <<mKind, mLayer, mKey, mMosaic, mTiles, mDriver, mBuild,
                   mCanceled, intersectingKeys, mIdx, mSubKey, mSources,
                   hasAtLeastOneSourceAtTargetLOD, mCached>>
    /\ UNCHANGED <<popVars, pipeVars, walkVars, compVars, layerVars, propVars, gdalVars, spacingVars, windowVars>>

\* assembleImage lines 199-249: the intersecting keys
ImageKeys ==
    /\ mpc = "keys"
    /\ mKind = "image"
    /\ LET levels == IntersectingLevels(mMosaic, mKey)
           keys == Flatten([k \in 1 .. Len(levels) |->
                                Repeat(levels[k], mMosaic.numKeys)])
       IN  /\ intersectingKeys' = keys
           /\ mIdx' = 1
           /\ mpc' = IF Len(keys) > 0 THEN "fetch" ELSE "build"
    /\ UNCHANGED <<mKind, mLayer, mKey, mMosaic, mTiles, mDriver, mBuild,
                   mCanceled, mSubKey, mSources,
                   hasAtLeastOneSourceAtTargetLOD, mCached, mOutput>>
    /\ UNCHANGED <<popVars, pipeVars, walkVars, compVars, layerVars, propVars, gdalVars, spacingVars, windowVars>>

\* lines 252-273: one intersecting key is fetched, from the dependency cache
\* or from the driver
ImageFetch ==
    /\ mpc = "fetch"
    /\ mKind = "image"
    /\ LET layerKey == intersectingKeys[mIdx]
           got == createImageImplementation(mDriver, layerKey)
           usable == StatusOk(got) /\ got.value.valid
       IN  IF ~isKeyInLegalRange(mLayer, layerKey)
           THEN UNCHANGED <<mSources, mCached>>
           ELSE IF layerKey \in mCached
           THEN /\ mSources' = Append(mSources, got.value)
                /\ mCached' = mCached
           ELSE /\ mSources' = IF usable THEN Append(mSources, got.value)
                               ELSE mSources
                /\ mCached' = IF usable THEN mCached \cup {layerKey}
                              ELSE mCached
    /\ mIdx' = mIdx + 1
    /\ mpc' = IF mIdx + 1 <= Len(intersectingKeys) THEN "fetch" ELSE "build"
    /\ UNCHANGED <<mKind, mLayer, mKey, mMosaic, mTiles, mDriver, mBuild,
                   mCanceled, intersectingKeys, mSubKey,
                   hasAtLeastOneSourceAtTargetLOD, mOutput>>
    /\ UNCHANGED <<popVars, pipeVars, walkVars, compVars, layerVars, propVars, gdalVars, spacingVars, windowVars>>

\* lines 275-356: the composite is built from the sources
ImageBuild ==
    /\ mpc = "build"
    /\ mKind = "image"
    /\ mOutput' =
        IF Len(mSources) = 0 THEN INVALID
        ELSE Raster(MosaicSize(mSources).width, MosaicSize(mSources).height,
                    mKey,
                    [i \in Pixels |-> ReadSources(mSources, 1, i, Pixel(0, 0))])
    /\ mpc' = "final"
    /\ UNCHANGED <<mKind, mLayer, mKey, mMosaic, mTiles, mDriver, mBuild,
                   mCanceled, intersectingKeys, mIdx, mSubKey, mSources,
                   hasAtLeastOneSourceAtTargetLOD, mCached>>
    /\ UNCHANGED <<popVars, pipeVars, walkVars, compVars, layerVars, propVars, gdalVars, spacingVars, windowVars>>

\* the caller sets the cancellation token
MosaicCancel ==
    /\ mpc \in {"keys", "fetch", "build", "final"}
    /\ ~mCanceled
    /\ mCanceled' = TRUE
    /\ UNCHANGED <<mKind, mLayer, mKey, mMosaic, mTiles, mDriver, mBuild,
                   mpc, intersectingKeys, mIdx, mSubKey, mSources,
                   hasAtLeastOneSourceAtTargetLOD, mCached, mOutput>>
    /\ UNCHANGED <<popVars, pipeVars, walkVars, compVars, layerVars, propVars, gdalVars, spacingVars, windowVars>>

InitMosaic ==
    MosaicInit /\ PopulateIdle /\ PipelineIdle /\ WalkIdle /\ CompositeIdle /\ LayerIdle /\ PropertiesIdle /\ GdalIdle /\ SpacingIdle /\ WindowIdle

NextMosaic ==
    \/ HeightfieldKeys
    \/ HeightfieldWalk
    \/ HeightfieldBuild
    \/ ImageKeys
    \/ ImageFetch
    \/ ImageBuild
    \/ MosaicFinish
    \/ MosaicCancel

SpecMosaic == InitMosaic /\ [][NextMosaic]_vars

\* ------------------------------------------- the assembler's properties
\* C16: the assembler returns a mosaic whenever at least one source was
\* fetched and the request was not cancelled, also when every source is a
\* coarser fallback, and returns nothing otherwise.
C16_FallbackMosaicBuilt ==
    mpc = "returned" =>
        (mOutput.valid <=> ~mCanceled /\ Len(mSources) > 0)

\* whether source k has data at pixel i
HasData(k, i) ==
    IF mKind = "image" THEN mSources[k].px[i].a > 0
    ELSE mSources[k].px[i] # NO_DATA_VALUE

\* C17: the sources of a returned mosaic are ordered finest first, and each
\* cell for which some source has data holds the sample of the first source
\* in that order that has data there.
C17_FinestFirstSampling ==
    mpc = "returned" /\ mOutput.valid =>
        /\ FinestFirst(mSources)
        /\ \A i \in Pixels :
            \A k \in 1 .. Len(mSources) :
                HasData(k, i) /\ (\A j \in 1 .. k - 1 : ~HasData(j, i))
                    => mOutput.px[i] = mSources[k].px[i]

\* C18: an assembler that finds the cancellation token set at one of its
\* checkpoints (in the walk, or before it returns) returns nothing.
C18_CancelledReturnsNull ==
    mpc = "returned" /\ mCanceled => mOutput = INVALID

\* a heightfield mosaic was built from sources and then discarded
C18_Witness ==
    /\ mKind = "heightfield"
    /\ mpc = "returned"
    /\ mCanceled
    /\ hasAtLeastOneSourceAtTargetLOD
    /\ mIdx > Len(intersectingKeys)
    /\ mOutput = INVALID

\* the walk was left on cancellation
C18_WalkLeft ==
    /\ mKind = "heightfield"
    /\ mpc = "returned"
    /\ mCanceled
    /\ mIdx <= Len(intersectingKeys)

\* an image composite was built from sources and then discarded
C18_ImageDiscarded ==
    /\ mKind = "image"
    /\ mpc = "returned"
    /\ mCanceled
    /\ Len(mSources) > 0
    /\ mOutput = INVALID

\* ------------------------------------------- claims on the early returns
Calls == 1 .. Len(pResults)

OutsideExtents(k) == pLayers[k].open /\ ~pLayers[k].inExtents

RefusedWithoutDriver(k) ==
    pResults[k] = Result(Status_OK, INVALID) /\ pDriverCalls[k] = 0

\* C11 as stated: for an open layer, a request for a key outside the layer's
\* data extents returns the non-error INVALID result and never invokes the
\* driver.
C11_Original_OutsideExtentsRefused ==
    \A k \in Calls : OutsideExtents(k) => RefusedWithoutDriver(k)

\* C11: for an open image layer, and for an open elevation layer whose profile
\* is valid, a request for a key outside the layer's data extents returns the
\* non-error INVALID result and never invokes the driver.
C11_OutsideExtentsRefused ==
    \A k \in Calls :
        OutsideExtents(k) /\ (pLayers[k].image \/ pLayers[k].profileValid)
            => RefusedWithoutDriver(k)

C11_Witness ==
    /\ \E k \in Calls :
        OutsideExtents(k) /\ ~pLayers[k].image /\ RefusedWithoutDriver(k)
    /\ ppc = "idle"

Unavailable(k) == ~pLayers[k].open \/ ~pLayers[k].profileValid

FailedFastWithoutDriver(k) ==
    pResults[k] = Result(ResourceUnavailable, INVALID) /\ pDriverCalls[k] = 0

\* C12 as stated: a request to a layer that is not open or has no valid
\* profile fails with ResourceUnavailable without invoking the driver, for
\* elevation and image layers alike.
C12_Original_FailFast ==
    \A k \in Calls : Unavailable(k) => FailedFastWithoutDriver(k)

\* C12: a request to an elevation layer that is not open or has no valid
\* profile fails with ResourceUnavailable without invoking the driver; a
\* request to an image layer that is not open returns the non-error INVALID
\* result without invoking the driver, and a request for a legal key to an
\* open image layer without a valid profile returns what a single driver call
\* answers.
C12_FailFast ==
    \A k \in Calls :
        Unavailable(k) =>
            IF ~pLayers[k].image THEN FailedFastWithoutDriver(k)
            ELSE IF ~pLayers[k].open THEN RefusedWithoutDriver(k)
            ELSE isKeyInLegalRange(pLayers[k], pKey) =>
                    /\ pDriverCalls[k] = 1
                    /\ pResults[k] = createImageImplementation(pDriver, pKey)

C12_Witness ==
    /\ \E k \in Calls :
        /\ ~pLayers[k].image /\ pLayers[k].open /\ ~pLayers[k].profileValid
        /\ FailedFastWithoutDriver(k)
    /\ ppc = "idle"

C12_ImageDriverReached ==
    \E k \in Calls :
        /\ pLayers[k].image /\ pLayers[k].open /\ ~pLayers[k].profileValid
        /\ pDriverCalls[k] = 1 /\ pResults[k].value.valid

\* ------------------------------------------- claims on failures
StructuralFailure(k) ==
    \/ Unavailable(k)
    \/ pAcquired[k].valid /\ ~validateHeightfield(pAcquired[k])

\* C13: createHeightfieldInKeyProfile returns a failed status only for a
\* structural failure (layer not open, invalid profile, malformed raster
\* dimensions); a failure of the driver for the key is returned as the
\* non-error INVALID result.
C13_DriverFailureConverted ==
    \A k \in Calls :
        ~pLayers[k].image /\ StatusFailed(pResults[k]) => StructuralFailure(k)

\* a step in which a request returns that was cancelled while it acquired or
\* post-processed its raster
CancelledReturn ==
    /\ ppc \in {"acquire", "finish"}
    /\ pCanceled
    /\ Len(pResults') = Len(pResults) + 1

\* C14: a request that is cancelled while it acquires or post-processes its
\* raster returns the non-error INVALID result, on the same-profile path and
\* on the mosaic path.
C14_CancelledIsInvalid ==
    [][CancelledReturn
        => pResults'[Len(pResults')] = Result(Status_OK, INVALID)]_vars

DimensionsLegal(raster) ==
    raster.width \in 1 .. MaxDimension /\ raster.height \in 1 .. MaxDimension

\* a step in which a request returns
Returning == Len(pResults') = Len(pResults) + 1

\* C15: a request that was not cancelled and acquired a raster whose width or
\* height is outside [1, 1024] returns GeneralError and no raster; a request
\* that acquired a raster with both dimensions inside [1, 1024], or none,
\* never returns GeneralError.
C15_IllegalDimensions ==
    [][Returning /\ ~pLayer.image =>
        LET res == pResults'[Len(pResults')]
            got == pAcquired'[Len(pAcquired')]
        IN  /\ got.valid /\ ~DimensionsLegal(got) /\ ~pCanceled
                => res = Result(GeneralError, INVALID)
            /\ res.status = GeneralError
                => got.valid /\ ~DimensionsLegal(got)]_vars

C15_Witness ==
    \E k \in Calls :
        /\ pResults[k] = Result(GeneralError, INVALID)
        /\ pAcquired[k].width > MaxDimension
        /\ pAcquired[k].height \in 1 .. MaxDimension

C15_LargestLegalReturned ==
    \E k \in Calls :
        /\ ReturnedRaster(k)
        /\ pResults[k].value.width = MaxDimension
        /\ pResults[k].value.height = MaxDimension

\* ====================================================== composite rasters
\* HeightfieldMosaic (ElevationLayer.cpp lines 46-70) and CompositeImage
\* (ImageLayer.cpp lines 27-52): their construction by the assemblers, their
\* copy construction and their destruction, with the layer's dependency cache
\* and the reference counts of the source rasters they depend on.

RasterIds == 1 .. MaxRasters
CompositeIds == 1 .. MaxComposites
CacheKeys == 1 .. MaxKeys

CompositeInit ==
    /\ cKind \in {"heightfield", "image"}
    /\ cCacheAlive = TRUE
    /\ cCache = [k \in CacheKeys |-> 0]
    /\ cRasters = [i \in RasterIds |-> [state |-> "unborn", refs |-> 0]]
    /\ cComposites = [m \in CompositeIds |->
                        [state |-> "unborn", dependencies |-> <<>>,
                         cleanupOperation |-> "unset", cleanups |-> 0]]
    /\ cCleaned = FALSE
    /\ cTerminated = FALSE

\* how often `id` occurs in `deps`
Occurrences(id, deps) == Cardinality({k \in 1 .. Len(deps) : deps[k] = id})

\* faulty variant: the pointers are stored without a reference of their own
RetainNothing(rasters, deps) == rasters

\* std::shared_ptr copies: one reference more per entry of `deps` (the
\* push_back of lines 322-324, the copy of the vector at line 57)
Retain(rasters, deps) ==
    [i \in RasterIds |->
        IF Occurrences(i, deps) = 0 THEN rasters[i]
        ELSE [state |-> "live", refs |-> rasters[i].refs + Occurrences(i, deps)]]

\* ~shared_ptr: one reference less per entry of `deps`; the raster is
\* released with its last reference
Release(rasters, deps) ==
    [i \in RasterIds |->
        IF Occurrences(i, deps) = 0 \/ rasters[i].state # "live"
        THEN rasters[i]
        ELSE IF rasters[i].refs <= Occurrences(i, deps)
        THEN [state |-> "released", refs |-> 0]
        ELSE [state |-> "live", refs |-> rasters[i].refs - Occurrences(i, deps)]]

\* DependencyCache::operator[]: the raster cached for the key if it still
\* exists, 0 otherwise
CacheLookup(cache, rasters, key) ==
    IF cache[key] # 0 /\ rasters[cache[key]].state = "live" THEN cache[key]
    ELSE 0

\* DependencyCache::clean: the entries whose raster is gone are erased
CacheClean(cache, rasters) ==
    [k \in DOMAIN cache |->
        IF cache[k] # 0 /\ rasters[cache[k]].state # "live" THEN 0
        ELSE cache[k]]

\* the elements of a set of numbers in ascending order
RECURSIVE Ascending(_)
Ascending(S) ==
    IF S = {} THEN <<>>
    ELSE LET low == SetMin(S) IN <<low>> \o Ascending(S \ {low})

\* the position of `x` in the sequence `seq`
PositionIn(x, seq) == CHOOSE k \in 1 .. Len(seq) : seq[k] = x

\* faulty variant: the fetched sources are not put into the cache
AssemblerBuildsWithoutPut(m, keys) ==
    LET hit(k) == IF cKind = "image" THEN CacheLookup(cCache, cRasters, k)
                  ELSE 0
        misses == Ascending({k \in keys : hit(k) = 0})
        fresh == Ascending({i \in RasterIds : cRasters[i].state = "unborn"})
        source(k) == IF hit(k) # 0 THEN hit(k)
                     ELSE fresh[PositionIn(k, misses)]
        ordered == Ascending(keys)
        deps == [k \in 1 .. Len(ordered) |-> source(ordered[k])]
    IN  /\ Len(misses) <= Len(fresh)
        /\ cRasters' = Retain(cRasters, deps)
        /\ cCache' = cCache
        /\ cComposites' = [cComposites EXCEPT ![m] =
                            [state |-> "live", dependencies |-> deps,
                             cleanupOperation |-> "set", cleanups |-> 0]]

\* the assembler builds a composite from the sources of the keys `keys`
\* (ElevationLayer.cpp lines 271-331, ImageLayer.cpp lines 251-300): an image
\* source comes from the dependency cache when it is there and is put there
\* when it is fetched; the composite refers to every source and is given its
\* cleanup closure
AssemblerBuilds(m, keys) ==
    LET hit(k) == IF cKind = "image" THEN CacheLookup(cCache, cRasters, k)
                  ELSE 0
        misses == Ascending({k \in keys : hit(k) = 0})
        fresh == Ascending({i \in RasterIds : cRasters[i].state = "unborn"})
        source(k) == IF hit(k) # 0 THEN hit(k)
                     ELSE fresh[PositionIn(k, misses)]
        ordered == Ascending(keys)
        deps == [k \in 1 .. Len(ordered) |-> source(ordered[k])]
    IN  /\ Len(misses) <= Len(fresh)
        /\ cRasters' = Retain(cRasters, deps)
        /\ cCache' = IF cKind = "image"
                     THEN [k \in CacheKeys |->
                            IF k \in keys THEN source(k) ELSE cCache[k]]
                     ELSE cCache
        /\ cComposites' = [cComposites EXCEPT ![m] =
                            [state |-> "live", dependencies |-> deps,
                             cleanupOperation |-> "set", cleanups |-> 0]]

CompositeCreate ==
    /\ ~cTerminated
    /\ cCacheAlive
    /\ \E m \in CompositeIds, keys \in (SUBSET CacheKeys) \ {{}} :
        /\ cComposites[m].state = "unborn"
        /\ \A n \in CompositeIds : n < m => cComposites[n].state # "unborn"
        /\ AssemblerBuilds(m, keys)
    /\ UNCHANGED <<cKind, cCacheAlive, cCleaned, cTerminated>>
    /\ UNCHANGED <<popVars, pipeVars, walkVars, mosaicVars, layerVars, propVars, gdalVars, spacingVars, windowVars>>

\* the copy constructor (ElevationLayer.cpp lines 55-60, ImageLayer.cpp lines
\* 40-43): the dependencies are copied, the cleanup closure is not
CompositeCopy ==
    /\ ~cTerminated
    /\ \E m, from \in CompositeIds :
        /\ cComposites[m].state = "unborn"
        /\ \A n \in CompositeIds : n < m => cComposites[n].state # "unborn"
        /\ cComposites[from].state = "live"
        /\ cRasters' = Retain(cRasters, cComposites[from].dependencies)
        /\ cComposites' = [cComposites EXCEPT ![m] =
                            [state |-> "live",
                             dependencies |-> cComposites[from].dependencies,
                             cleanupOperation |-> "unset", cleanups |-> 0]]
    /\ UNCHANGED <<cKind, cCacheAlive, cCache, cCleaned, cTerminated>>
    /\ UNCHANGED <<popVars, pipeVars, walkVars, mosaicVars, layerVars, propVars, gdalVars, spacingVars, windowVars>>

\* the destructor (ElevationLayer.cpp lines 62-65, ImageLayer.cpp lines
\* 45-48): cleanupOperation() is called; an empty std::function throws
\* std::bad_function_call, which ends the program when it leaves a
\* destructor.  The closure (lines 327-331) cleans the cache if the cache
\* still exists.  The dependencies are released after the destructor's body.
CompositeDestroy ==
    /\ ~cTerminated
    /\ \E m \in CompositeIds :
        /\ cComposites[m].state = "live"
        /\ IF cComposites[m].cleanupOperation = "unset"
           THEN /\ cTerminated' = TRUE
                /\ UNCHANGED <<cCache, cRasters, cComposites, cCleaned>>
           ELSE /\ cCache' = IF cCacheAlive THEN CacheClean(cCache, cRasters)
                             ELSE cCache
                /\ cCleaned' = (cCleaned \/ cCacheAlive)
                /\ cRasters' = Release(cRasters, cComposites[m].dependencies)
                /\ cComposites' = [cComposites EXCEPT
                                    ![m].state = "destroyed",
                                    ![m].cleanups = @ + 1]
                /\ cTerminated' = FALSE
    /\ UNCHANGED <<cKind, cCacheAlive>>
    /\ UNCHANGED <<popVars, pipeVars, walkVars, mosaicVars, layerVars, propVars, gdalVars, spacingVars, windowVars>>

\* DependencyCache::clean() is called on the layer's cache
CacheCleans ==
    /\ ~cTerminated
    /\ cCacheAlive
    /\ cCache' = CacheClean(cCache, cRasters)
    /\ cCleaned' = TRUE
    /\ UNCHANGED <<cKind, cCacheAlive, cRasters, cComposites, cTerminated>>
    /\ UNCHANGED <<popVars, pipeVars, walkVars, mosaicVars, layerVars, propVars, gdalVars, spacingVars, windowVars>>

\* the layer is destroyed, and its dependency cache with it
LayerDestroyed ==
    /\ ~cTerminated
    /\ cCacheAlive
    /\ cCacheAlive' = FALSE
    /\ cCache' = [k \in CacheKeys |-> 0]
    /\ UNCHANGED <<cKind, cRasters, cComposites, cCleaned, cTerminated>>
    /\ UNCHANGED <<popVars, pipeVars, walkVars, mosaicVars, layerVars, propVars, gdalVars, spacingVars, windowVars>>

InitComposite ==
    CompositeInit /\ PopulateIdle /\ PipelineIdle /\ WalkIdle /\ MosaicIdle /\ LayerIdle /\ PropertiesIdle /\ GdalIdle /\ SpacingIdle /\ WindowIdle

NextComposite ==
    \/ CompositeCreate
    \/ CompositeCopy
    \/ CompositeDestroy
    \/ CacheCleans
    \/ LayerDestroyed

SpecComposite == InitComposite /\ [][NextComposite]_vars

\* ------------------------------------------- the composites' properties
Live(m) == cComposites[m].state = "live"

\* C19: every composite, built by the assembler or copy constructed, owns a
\* callable cleanup closure; the closure has run once when the composite is
\* destroyed and not before, and no destruction invokes an unset closure.
C19_CleanupOnce ==
    /\ ~cTerminated
    /\ \A m \in DOMAIN cComposites :
        /\ Live(m) => /\ cComposites[m].cleanupOperation = "set"
                      /\ cComposites[m].cleanups = 0
        /\ cComposites[m].state = "destroyed" => cComposites[m].cleanups = 1

\* C20: every dependency of a live mosaic is alive.
C20_DependenciesAlive ==
    \A m \in DOMAIN cComposites :
        Live(m) =>
            \A k \in 1 .. Len(cComposites[m].dependencies) :
                cRasters[cComposites[m].dependencies[k]].state = "live"

\* a live mosaic shares a dependency with a destroyed one, and the cache has
\* been cleaned
C20_Witness ==
    /\ cCleaned
    /\ \E m, n \in DOMAIN cComposites :
        /\ Live(m)
        /\ cComposites[n].state = "destroyed"
        /\ \E k \in 1 .. Len(cComposites[m].dependencies),
              j \in 1 .. Len(cComposites[n].dependencies) :
                cComposites[m].dependencies[k] = cComposites[n].dependencies[j]

\* the rasters the live composites depend on
ReferencedByLive(composites) ==
    UNION {{composites[m].dependencies[k] :
                k \in 1 .. Len(composites[m].dependencies)} :
           m \in {n \in DOMAIN composites : composites[n].state = "live"}}

\* the rasters the dependency cache has an entry for
CachedRasters(cache) == {cache[k] : k \in DOMAIN cache} \ {0}

\* a step in which a composite is destroyed
Destruction ==
    \E m \in DOMAIN cComposites :
        Live(m) /\ cComposites'[m].state = "destroyed"

\* C21: while the layer's cache exists, every raster a live composite was
\* built from has an entry in it, for elevation and image mosaics alike, and
\* after the destruction of a composite the cache holds no entry for a raster
\* that no live composite references.
C21_CacheContent ==
    /\ [](cCacheAlive =>
            ReferencedByLive(cComposites) \subseteq CachedRasters(cCache))
    /\ [][Destruction /\ cCacheAlive =>
            CachedRasters(cCache') \subseteq ReferencedByLive(cComposites')]_vars

\* ======================================================================
\* One layer called by several threads: Layer::open and Layer::close, tile
\* production and the write operations, each thread one call at a time.
\* ======================================================================
ServiceUnavailable == "ServiceUnavailable"

\* what openImplementation may return
OpenResults == {LayerStatus(Status_OK, ""),
                LayerStatus(ResourceUnavailable, "open failed")}

\* Layer::isOpen, Layer.cpp lines 152-155
isOpen == lStatus.code = Status_OK

\* std::shared_mutex: when a shared, and when the exclusive lock is granted
SharedGranted == lExclusive = 0
ExclusiveGranted == lExclusive = 0 /\ lShared = {}

LayerInit ==
    /\ lKind \in {"elevation", "image"}
    /\ lOpenAutomatically \in BOOLEAN
    /\ lWritingSupported \in BOOLEAN
    /\ lWritingRequested \in BOOLEAN
    /\ lKind = "image" => ~lWritingSupported /\ ~lWritingRequested
    /\ lStatus = ConstructedStatus(lOpenAutomatically)
    /\ lShared = {} /\ lExclusive = 0
    /\ lThread = [t \in Threads |-> IdleThread(NothingReturned)]
    /\ lRaster = WrittenRaster
    /\ lClosed = FALSE

\* Layer::open up to its lock, Layer.cpp lines 109-117
OpenCall(t) ==
    /\ lThread[t].pc = "idle"
    /\ lThread' = [lThread EXCEPT ![t] =
           IF isOpen THEN IdleThread(Returned("status", lStatus))
           ELSE [pc |-> "open", ret |-> NothingReturned]]
    /\ UNCHANGED <<lKind, lOpenAutomatically, lWritingSupported,
                   lWritingRequested, lStatus, lShared, lExclusive, lRaster,
                   lClosed>>
    /\ UNCHANGED <<popVars, pipeVars, walkVars, mosaicVars, compVars, propVars, gdalVars, spacingVars, windowVars>>

\* lines 118-121: the exclusive lock is taken and the status set to OK
OpenLock(t) ==
    /\ lThread[t].pc = "open"
    /\ ExclusiveGranted
    /\ lExclusive' = t
    /\ lStatus' = LayerStatus(Status_OK, "")
    /\ lThread' = [lThread EXCEPT ![t].pc = "opening"]
    /\ UNCHANGED <<lKind, lOpenAutomatically, lWritingSupported,
                   lWritingRequested, lShared, lRaster, lClosed>>
    /\ UNCHANGED <<popVars, pipeVars, walkVars, mosaicVars, compVars, propVars, gdalVars, spacingVars, windowVars>>

\* faulty variant: the result of openImplementation is returned but the
\* status set before the call is kept
OpenReturnKeepsStatus(t) ==
    /\ lThread[t].pc = "opening"
    /\ \E result \in OpenResults :
        lThread' = [lThread EXCEPT ![t] =
                       IdleThread(Returned("opened", result))]
    /\ lExclusive' = 0
    /\ UNCHANGED <<lKind, lOpenAutomatically, lWritingSupported,
                   lWritingRequested, lStatus, lShared, lRaster, lClosed>>
    /\ UNCHANGED <<popVars, pipeVars, walkVars, mosaicVars, compVars, propVars, gdalVars, spacingVars, windowVars>>

\* lines 123-126: openImplementation returns, its result becomes the status
\* and is returned; the lock is released
OpenReturn(t) ==
    /\ lThread[t].pc = "opening"
    /\ \E result \in OpenResults :
        /\ lStatus' = result
        /\ lThread' = [lThread EXCEPT ![t] =
                          IdleThread(Returned("opened", result))]
    /\ lExclusive' = 0
    /\ UNCHANGED <<lKind, lOpenAutomatically, lWritingSupported,
                   lWritingRequested, lShared, lRaster, lClosed>>
    /\ UNCHANGED <<popVars, pipeVars, walkVars, mosaicVars, compVars, propVars, gdalVars, spacingVars, windowVars>>

\* faulty variant: close() goes for the lock whatever the status
CloseCallUnchecked(t) ==
    /\ lThread[t].pc = "idle"
    /\ lThread' = [lThread EXCEPT ![t] = [pc |-> "close", ret |-> NothingReturned]]
    /\ UNCHANGED <<lKind, lOpenAutomatically, lWritingSupported,
                   lWritingRequested, lStatus, lShared, lExclusive, lRaster,
                   lClosed>>
    /\ UNCHANGED <<popVars, pipeVars, walkVars, mosaicVars, compVars, propVars, gdalVars, spacingVars, windowVars>>

\* Layer::close up to its lock, lines 128-132
CloseCall(t) ==
    /\ lThread[t].pc = "idle"
    /\ lThread' = [lThread EXCEPT ![t] =
           IF isOpen THEN [pc |-> "close", ret |-> NothingReturned]
           ELSE IdleThread(Returned("void", lStatus))]
    /\ UNCHANGED <<lKind, lOpenAutomatically, lWritingSupported,
                   lWritingRequested, lStatus, lShared, lExclusive, lRaster,
                   lClosed>>
    /\ UNCHANGED <<popVars, pipeVars, walkVars, mosaicVars, compVars, propVars, gdalVars, spacingVars, windowVars>>

\* line 133
CloseLock(t) ==
    /\ lThread[t].pc = "close"
    /\ ExclusiveGranted
    /\ lExclusive' = t
    /\ lThread' = [lThread EXCEPT ![t].pc = "closing"]
    /\ UNCHANGED <<lKind, lOpenAutomatically, lWritingSupported,
                   lWritingRequested, lStatus, lShared, lRaster, lClosed>>
    /\ UNCHANGED <<popVars, pipeVars, walkVars, mosaicVars, compVars, propVars, gdalVars, spacingVars, windowVars>>

\* lines 134-137: closeImplementation returns, the status is set and the lock
\* released
CloseReturn(t) ==
    /\ lThread[t].pc = "closing"
    /\ lStatus' = LayerStatus(ResourceUnavailable, "Layer closed")
    /\ lThread' = [lThread EXCEPT ![t] =
                      IdleThread(Returned("closed", lStatus'))]
    /\ lExclusive' = 0
    /\ lClosed' = TRUE
    /\ UNCHANGED <<lKind, lOpenAutomatically, lWritingSupported,
                   lWritingRequested, lShared, lRaster>>
    /\ UNCHANGED <<popVars, pipeVars, walkVars, mosaicVars, compVars, propVars, gdalVars, spacingVars, windowVars>>

\* createHeightfield / createImage up to the driver's lock: ElevationLayer.cpp
\* lines 402-411, ImageLayer.cpp lines 96-105
ProduceCall(t) ==
    /\ lThread[t].pc = "idle"
    /\ lThread' = [lThread EXCEPT ![t] =
           IF isOpen THEN [pc |-> "produce", ret |-> NothingReturned]
           ELSE IdleThread(Returned("invalid", lStatus))]
    /\ UNCHANGED <<lKind, lOpenAutomatically, lWritingSupported,
                   lWritingRequested, lStatus, lShared, lExclusive, lRaster,
                   lClosed>>
    /\ UNCHANGED <<popVars, pipeVars, walkVars, mosaicVars, compVars, propVars, gdalVars, spacingVars, windowVars>>

\* faulty variant: the driver is called without the lock
ProduceLockNotTaken(t) ==
    /\ lThread[t].pc = "produce"
    /\ lThread' = [lThread EXCEPT ![t].pc = "producing"]
    /\ UNCHANGED <<lKind, lOpenAutomatically, lWritingSupported,
                   lWritingRequested, lStatus, lShared, lExclusive, lRaster,
                   lClosed>>
    /\ UNCHANGED <<popVars, pipeVars, walkVars, mosaicVars, compVars, propVars, gdalVars, spacingVars, windowVars>>

\* ElevationLayer.cpp line 419, ImageLayer.cpp lines 172 and 178: the shared
\* lock is taken and the driver called
ProduceLock(t) ==
    /\ lThread[t].pc = "produce"
    /\ SharedGranted
    /\ lShared' = lShared \cup {t}
    /\ lThread' = [lThread EXCEPT ![t].pc = "producing"]
    /\ UNCHANGED <<lKind, lOpenAutomatically, lWritingSupported,
                   lWritingRequested, lStatus, lExclusive, lRaster, lClosed>>
    /\ UNCHANGED <<popVars, pipeVars, walkVars, mosaicVars, compVars, propVars, gdalVars, spacingVars, windowVars>>

\* ElevationLayer.cpp lines 420-425, ImageLayer.cpp lines 173 and 179-180: the
\* driver returns and the lock is released
ProduceReturn(t) ==
    /\ lThread[t].pc = "producing"
    /\ lShared' = lShared \ {t}
    /\ lThread' = [lThread EXCEPT ![t] =
                      IdleThread(Returned("raster", lStatus))]
    /\ UNCHANGED <<lKind, lOpenAutomatically, lWritingSupported,
                   lWritingRequested, lStatus, lExclusive, lRaster, lClosed>>
    /\ UNCHANGED <<popVars, pipeVars, walkVars, mosaicVars, compVars, propVars, gdalVars, spacingVars, windowVars>>

\* writeHeightfield, ElevationLayer.cpp lines 494-504, and writeImage,
\* ImageLayer.cpp lines 367-371, up to their lock
WriteCall(t) ==
    /\ lThread[t].pc = "idle"
    /\ lThread' = [lThread EXCEPT ![t] =
           IF lKind = "elevation"
           THEN IF lWritingSupported /\ lWritingRequested
                THEN [pc |-> "write", ret |-> NothingReturned]
                ELSE IdleThread(Returned("written",
                                         LayerStatus(ServiceUnavailable, "")))
           ELSE IF lStatus.code # Status_OK
                THEN IdleThread(Returned("written", lStatus))
                ELSE [pc |-> "write", ret |-> NothingReturned]]
    /\ UNCHANGED <<lKind, lOpenAutomatically, lWritingSupported,
                   lWritingRequested, lStatus, lShared, lExclusive, lRaster,
                   lClosed>>
    /\ UNCHANGED <<popVars, pipeVars, walkVars, mosaicVars, compVars, propVars, gdalVars, spacingVars, windowVars>>

\* ElevationLayer.cpp line 502, ImageLayer.cpp line 373
WriteLock(t) ==
    /\ lThread[t].pc = "write"
    /\ SharedGranted
    /\ lShared' = lShared \cup {t}
    /\ lThread' = [lThread EXCEPT ![t].pc = "writing"]
    /\ UNCHANGED <<lKind, lOpenAutomatically, lWritingSupported,
                   lWritingRequested, lStatus, lExclusive, lRaster, lClosed>>
    /\ UNCHANGED <<popVars, pipeVars, walkVars, mosaicVars, compVars, propVars, gdalVars, spacingVars, windowVars>>

\* faulty variant: a write implementation that stores the raster
writeImplementationStores(raster) ==
    [status |-> LayerStatus(Status_OK, ""),
     raster |-> [k \in DOMAIN raster |-> 0]]

\* writeHeightfieldImplementation, ElevationLayer.cpp lines 507-514, and
\* writeImageImplementation, ImageLayer.cpp lines 377-381: the status returned
\* and the raster afterwards
writeImplementation(raster) ==
    [status |-> LayerStatus(ServiceUnavailable, ""), raster |-> raster]

\* ElevationLayer.cpp line 503, ImageLayer.cpp line 374: the implementation
\* returns and the lock is released
WriteReturn(t) ==
    /\ lThread[t].pc = "writing"
    /\ LET written == writeImplementation(lRaster)
       IN  /\ lRaster' = written.raster
           /\ lThread' = [lThread EXCEPT ![t] =
                             IdleThread(Returned("written", written.status))]
    /\ lShared' = lShared \ {t}
    /\ UNCHANGED <<lKind, lOpenAutomatically, lWritingSupported,
                   lWritingRequested, lStatus, lExclusive, lClosed>>
    /\ UNCHANGED <<popVars, pipeVars, walkVars, mosaicVars, compVars, propVars, gdalVars, spacingVars, windowVars>>

InitLayer ==
    LayerInit /\ PopulateIdle /\ PipelineIdle /\ WalkIdle /\ MosaicIdle /\ CompositeIdle /\ PropertiesIdle /\ GdalIdle /\ SpacingIdle /\ WindowIdle

NextLayer ==
    \E t \in Threads :
        \/ OpenCall(t)
        \/ OpenLock(t)
        \/ OpenReturn(t)
        \/ CloseCall(t)
        \/ CloseLock(t)
        \/ CloseReturn(t)
        \/ ProduceCall(t)
        \/ ProduceLock(t)
        \/ ProduceReturn(t)
        \/ WriteCall(t)
        \/ WriteLock(t)
        \/ WriteReturn(t)

SpecLayer == InitLayer /\ [][NextLayer]_vars

\* ------------------------------------------------------------------ C22
\* the log of calls grows by appending
LogGrows == /\ Len(calls') >= Len(calls)
            /\ \A k \in 1 .. Len(calls) : calls'[k] = calls[k]

\* a contender or offset layer marked failed stays failed
StaysFailed(failed, after) ==
    \A k \in DOMAIN failed : failed[k] /\ k \in DOMAIN after => after[k]

\* no step makes a createHeightfield call on a layer marked failed
NeverRetried(failed, list) ==
    \A k \in DOMAIN failed :
        failed[k] => \A j \in Len(calls) + 1 .. Len(calls') :
                        calls'[j].index # list[k].index

\* C22: in the general path a contender or offset layer that is marked failed
\* holds no raster, stays failed in every later step of the request, and
\* createHeightfield is never called on it again, also after the local cache
\* has been cleared; the other layers are not yet fetched or hold a valid
\* raster.
C22_FailedNeverRetried ==
    [][/\ LogGrows
       /\ StaysFailed(heightFailed, heightFailed')
       /\ StaysFailed(offsetFailed, offsetFailed')
       /\ NeverRetried(heightFailed, contenders)
       /\ NeverRetried(offsetFailed, offsets)
       /\ \A k \in DOMAIN heightFailed :
            heightFailed[k] => ~heightfields[k].valid
       /\ \A k \in DOMAIN offsetFailed :
            offsetFailed[k] => ~offsetfields[k].valid]_vars

\* a contender and an offset layer were fetched without success, the local
\* cache was cleared later, and rasters were fetched again after that
C22_Witness ==
    \E k \in DOMAIN heightFailed, o \in DOMAIN offsetFailed :
        /\ offsetFailed[o]
        /\ heightFailed[k]
        /\ Len(calls) >= 3
        /\ calls[1].index = contenders[k].index
        /\ \E q \in 2 .. Len(calls) - 1 : calls[q] = Evicted
        /\ calls[Len(calls)].ok

\* ------------------------------------------------------------------ C23
\* the contenders whose raster the local cache holds
Held == {k \in DOMAIN heightfields : heightfields[k].valid}

\* the step at the end of a contender iteration that finds the cache full
ClearingStep ==
    /\ pc = "clearing" /\ pc' # "clearing"
    /\ numHeightfieldsInCache >= maxHeightfields

AtPoll ==
    \/ pc = "column" /\ c < NumColumns
    \/ pc = "offsets" /\ oi >= 1

\* a step of the request itself
RequestStep == pc' # pc \/ oi' # oi \/ c' # c \/ r' # r

\* C24: a populateHeightfield call whose token was set before it returned
\* returns false, whichever path it took; and a general-path run that reaches
\* the head of a column or of an offset iteration with the token set returns
\* false in that very step, without another write to the target or another
\* createHeightfield call.
C24_CancelledReturnsFalse ==
    /\ [](pc = "done" /\ canceled => ret = FALSE)
    /\ [][canceled /\ AtPoll /\ RequestStep =>
            /\ pc' = "done" /\ ret' = FALSE
            /\ hf' = hf /\ calls' = calls]_vars

\* a general-path run that had read real data was cancelled and stopped at
\* the head of an offset iteration, before the last column
C24_Witness ==
    /\ pc = "done" /\ canceled /\ ret = FALSE
    /\ requiresResample /\ realData
    /\ c < NumColumns /\ oi >= 1

\* a run that took the single-contender path and copied real data was
\* cancelled before its final poll
C24_FastPathCancelled ==
    /\ pc = "done" /\ canceled /\ ret = FALSE
    /\ ~requiresResample /\ realData

\* ------------------------------------------------------------------ C25
\* the threads inside a driver's tile production, and those inside
\* openImplementation or closeImplementation
Producing == {t \in Threads : lThread[t].pc = "producing"}
OpeningOrClosing == {t \in Threads : lThread[t].pc \in {"opening", "closing"}}

\* C25: a thread inside createHeightfieldImplementation or
\* createImageImplementation holds the layer's state lock in shared mode, a
\* thread inside openImplementation or closeImplementation holds it
\* exclusively, and in no interleaving is a thread inside a tile production
\* while another is inside an open or a close of the layer.
C25_LockDiscipline ==
    /\ \A t \in Producing : t \in lShared /\ lExclusive = 0
    /\ \A t \in OpeningOrClosing : lExclusive = t /\ lShared = {}
    /\ Producing = {} \/ OpeningOrClosing = {}
    /\ Cardinality(OpeningOrClosing) <= 1

\* two tile productions on the layer overlap
C25_Witness ==
    /\ Cardinality(Producing) >= 2
    /\ Producing \subseteq lShared

\* a tile production waits while the layer is being closed
C25_ProductionWaits ==
    \E t, u \in Threads :
        lThread[t].pc = "produce" /\ lThread[u].pc = "closing"

\* ------------------------------------------------------------------ C26
\* thread t returns from a call of `kind` in this step
Returns(t, kind) ==
    /\ lThread'[t] # lThread[t]
    /\ lThread'[t].pc = "idle"
    /\ lThread'[t].ret.kind = kind

\* C26: on a layer with the default write implementation, writeHeightfield
\* and writeImage return ServiceUnavailable, except that writeImage called on
\* a layer whose status is failed returns that status; no write changes the
\* layer's status or the raster passed.
C26_WriteUnsupported ==
    [][\A t \in Threads : Returns(t, "written") =>
            /\ lStatus' = lStatus
            /\ lRaster' = lRaster
            /\ lThread'[t].ret.status =
                 IF lKind = "image" /\ lThread[t].pc = "idle"
                 THEN lStatus
                 ELSE LayerStatus(ServiceUnavailable, "")
            /\ lThread'[t].ret.status.code # Status_OK]_vars

\* on an image layer one write went through the write implementation and
\* another was refused with the layer's own status
C26_Witness ==
    /\ lKind = "image"
    /\ \E t, u \in Threads :
        /\ lThread[t].pc = "idle" /\ lThread[u].pc = "idle"
        /\ lThread[t].ret = Returned("written",
                                     LayerStatus(ServiceUnavailable, ""))
        /\ lThread[u].ret = Returned("written",
                                     LayerStatus(ResourceUnavailable,
                                                 "Layer closed"))

\* an elevation layer that supports writing went through its write
\* implementation
C26_ElevationWritten ==
    /\ lKind = "elevation" /\ lWritingSupported /\ lWritingRequested
    /\ \E t \in Threads :
        lThread[t] = IdleThread(Returned("written",
                                         LayerStatus(ServiceUnavailable, "")))

\* ------------------------------------------------------------------ C30
\* thread t leaves openImplementation, or closeImplementation, in this step
LeavesOpen(t) == lThread[t].pc = "opening" /\ lThread'[t].pc = "idle"
LeavesClose(t) == lThread[t].pc = "closing" /\ lThread'[t].pc = "idle"

C30_OpenFailed ==
    \E t \in Threads :
        /\ lThread[t] = IdleThread(Returned("opened",
                            LayerStatus(ResourceUnavailable, "open failed")))
        /\ lStatus = lThread[t].ret.status

\* ------------------------------------------------------------------ C27
\* a mosaic has been built from the fetched sources
MosaicBuilt == mpc \in {"final", "returned"} /\ mOutput.valid

\* C27: a mosaic built by assembleHeightfield or assembleImage is as wide as
\* the widest and as high as the highest of the fetched sources, hence in
\* neither dimension smaller than any of them.
C27_MosaicSize ==
    MosaicBuilt =>
        /\ \E k \in 1 .. Len(mSources) : mOutput.width = mSources[k].width
        /\ \E k \in 1 .. Len(mSources) : mOutput.height = mSources[k].height
        /\ \A k \in 1 .. Len(mSources) :
            /\ mOutput.width >= mSources[k].width
            /\ mOutput.height >= mSources[k].height

\* a heightfield mosaic was built from sources of different sizes, the first
\* of them one of the smaller
C27_Witness ==
    /\ MosaicBuilt
    /\ mKind = "heightfield"
    /\ \E k \in 1 .. Len(mSources) :
        /\ mSources[1].width < mSources[k].width
        /\ mSources[1].height < mSources[k].height

\* the same for an image composite
C27_ImageSources ==
    /\ MosaicBuilt
    /\ mKind = "image"
    /\ \E j, k \in 1 .. Len(mSources) :
        /\ mSources[j].width < mSources[k].width
        /\ mSources[j].height < mSources[k].height

\* ------------------------------------------------------------------ C28
\* the code indexes of the stack
StackIndexes == 0 .. Len(layers) - 1

\* the best available key of the layer of code index i
BestKeyOf(i) == bestAvailableTileKey(layers[i + 1], MappedKeyOf(i))

\* the layer of code index i is left out of the request
Excluded(i) ==
    \/ ~layers[i + 1].open
    \/ layers[i + 1].minLevel > KeyLevel
    \/ ~KeyValid(BestKeyOf(i))

\* the positions of a list that hold the layer of code index i
EntriesOf(list, i) == {k \in 1 .. Len(list) : list[k].index = i}

\* the list is in strictly descending stack index, each entry with the
\* layer's best available key and the fallback flag that goes with it
WellFormed(list) ==
    /\ \A k \in 1 .. Len(list) - 1 : list[k].index > list[k + 1].index
    /\ \A k \in 1 .. Len(list) :
        /\ list[k].index \in StackIndexes
        /\ list[k].key = BestKeyOf(list[k].index)
        /\ list[k].isFallback <=> BestKeyOf(list[k].index) # MappedKeyOf(list[k].index)

\* the layer of code index i wrote or added to some cell
Contributed(i) ==
    \E q \in Cells : cellLog[q].resolved = i \/ i \in cellLog[q].offs

\* C28: once the stack is classified, a layer that is not open, or whose
\* minimum level is above the key's level, or that has no best available key
\* is in neither list, createHeightfield is never called on it and no cell
\* receives anything from it; every other layer is in exactly one list, once:
\* offsets when its offset flag is set, contenders otherwise; each entry's
\* isFallback tells whether its best available key differs from its mapped
\* key; and both lists are in strictly descending stack index.
C28_Classification ==
    pc # "start" =>
        /\ \A i \in StackIndexes :
            IF Excluded(i)
            THEN /\ EntriesOf(contenders, i) = {}
                 /\ EntriesOf(offsets, i) = {}
                 /\ \A k \in 1 .. Len(calls) : calls[k].index # i
                 /\ ~Contributed(i)
            ELSE IF layers[i + 1].offset
            THEN /\ Cardinality(EntriesOf(offsets, i)) = 1
                 /\ EntriesOf(contenders, i) = {}
            ELSE /\ Cardinality(EntriesOf(contenders, i)) = 1
                 /\ EntriesOf(offsets, i) = {}
        /\ WellFormed(contenders)
        /\ WellFormed(offsets)

\* a finished request whose stack held an excluded layer above a contender
\* that was fetched
C28_Witness ==
    /\ pc = "done"
    /\ Len(layers) = 2
    /\ Excluded(1) /\ ~Excluded(0)
    /\ Len(contenders) = 1
    /\ Len(calls) > 0

\* two contenders, the upper one with a fallback key, were classified and
\* fetched
C28_TwoContenders ==
    /\ pc = "done"
    /\ Len(contenders) = 2
    /\ contenders[1].isFallback /\ ~contenders[2].isFallback
    /\ Len(calls) > 1

\* a contender and an offset layer were classified
C28_BothLists ==
    /\ pc = "done"
    /\ Len(contenders) = 1 /\ Len(offsets) = 1
    /\ Len(calls) > 1

\* ------------------------------------------------------------------ C29
\* the request ran to its end, past the early exits, without cancellation
Completed ==
    /\ pc = "done" /\ ~canceled
    /\ ~(NothingUsable \/ EverythingFallback)

\* no contender and no offset layer yielded a valid sample for cell q
NothingSampled(q) == cellLog[q].resolved < 0 /\ cellLog[q].offs = {}

\* C29: when populateHeightfield completes without cancellation past the
\* early exits, no cell of the target holds NO_DATA_VALUE, and every cell for
\* which no contender and no offset layer yielded a valid sample holds 0,
\* whatever the target held before the call.
C29_ZeroFilled ==
    Completed =>
        \A q \in Cells :
            /\ hf[q] # NO_DATA_VALUE
            /\ NothingSampled(q) => hf[q] = 0

\* what holds of the code: no cell is left at NO_DATA_VALUE, and a cell
\* without a sample holds 0 when the single-contender copy was taken or when
\* the caller passed it as NO_DATA_VALUE or 0; in the general path it otherwise
\* keeps what the caller passed
C29_SentinelResolved ==
    Completed =>
        \A q \in Cells :
            /\ hf[q] # NO_DATA_VALUE
            /\ NothingSampled(q) =>
                hf[q] = IF ~requiresResample \/ hfBefore[q] = NO_DATA_VALUE
                        THEN 0 ELSE hfBefore[q]

\* ======================================================================
\* The properties of one elevation layer and its revision counter: the
\* setters of ElevationLayer and Layer, and Layer::dirty.
\* ======================================================================
PropertiesInit ==
    /\ fOffset \in BOOLEAN
    /\ fNoDataValue \in PropertyValues
    /\ fMinValidValue \in PropertyValues
    /\ fMaxValidValue \in PropertyValues
    /\ fEncoding \in Encodings
    /\ fOpenAutomatically \in BOOLEAN
    /\ fAttribution \in Attributions
    /\ fReopenRequired = FALSE
    /\ fRevision = 0

\* ElevationLayer::setEncoding, ElevationLayer.cpp lines 153-155
setEncoding(value) ==
    /\ fEncoding' = value
    /\ UNCHANGED <<fOffset, fNoDataValue, fMinValidValue, fMaxValidValue,
                   fOpenAutomatically, fAttribution, fReopenRequired,
                   fRevision>>
    /\ UNCHANGED <<popVars, pipeVars, walkVars, mosaicVars, compVars, layerVars, gdalVars, spacingVars, windowVars>>

\* ElevationLayer::setOffset, lines 159-161
setOffset(value) ==
    /\ fOffset' = value
    /\ fReopenRequired' = TRUE
    /\ UNCHANGED <<fNoDataValue, fMinValidValue, fMaxValidValue, fEncoding,
                   fOpenAutomatically, fAttribution, fRevision>>
    /\ UNCHANGED <<popVars, pipeVars, walkVars, mosaicVars, compVars, layerVars, gdalVars, spacingVars, windowVars>>

\* ElevationLayer::setNoDataValue, lines 165-167
setNoDataValue(value) ==
    /\ fNoDataValue' = value
    /\ fReopenRequired' = TRUE
    /\ UNCHANGED <<fOffset, fMinValidValue, fMaxValidValue, fEncoding,
                   fOpenAutomatically, fAttribution, fRevision>>
    /\ UNCHANGED <<popVars, pipeVars, walkVars, mosaicVars, compVars, layerVars, gdalVars, spacingVars, windowVars>>

\* ElevationLayer::setMinValidValue, lines 171-173
setMinValidValue(value) ==
    /\ fMinValidValue' = value
    /\ fReopenRequired' = TRUE
    /\ UNCHANGED <<fOffset, fNoDataValue, fMaxValidValue, fEncoding,
                   fOpenAutomatically, fAttribution, fRevision>>
    /\ UNCHANGED <<popVars, pipeVars, walkVars, mosaicVars, compVars, layerVars, gdalVars, spacingVars, windowVars>>

\* ElevationLayer::setMaxValidValue, lines 178-180
setMaxValidValue(value) ==
    /\ fMaxValidValue' = value
    /\ fReopenRequired' = TRUE
    /\ UNCHANGED <<fOffset, fNoDataValue, fMinValidValue, fEncoding,
                   fOpenAutomatically, fAttribution, fRevision>>
    /\ UNCHANGED <<popVars, pipeVars, walkVars, mosaicVars, compVars, layerVars, gdalVars, spacingVars, windowVars>>

\* Layer::setOpenAutomatically, Layer.cpp lines 90-94
setOpenAutomatically(value) ==
    /\ fOpenAutomatically' = value
    /\ UNCHANGED <<fOffset, fNoDataValue, fMinValidValue, fMaxValidValue,
                   fEncoding, fAttribution, fReopenRequired, fRevision>>
    /\ UNCHANGED <<popVars, pipeVars, walkVars, mosaicVars, compVars, layerVars, gdalVars, spacingVars, windowVars>>

\* Layer::setAttribution, Layer.cpp lines 182-186
setAttribution(value) ==
    /\ fAttribution' = value
    /\ UNCHANGED <<fOffset, fNoDataValue, fMinValidValue, fMaxValidValue,
                   fEncoding, fOpenAutomatically, fReopenRequired, fRevision>>
    /\ UNCHANGED <<popVars, pipeVars, walkVars, mosaicVars, compVars, layerVars, gdalVars, spacingVars, windowVars>>

\* Layer::dirty and Layer::bumpRevision, Layer.cpp lines 65-75, called by the
\* user of the layer
dirty ==
    /\ fRevision < MaxRevision
    /\ fRevision' = fRevision + 1
    /\ UNCHANGED <<fOffset, fNoDataValue, fMinValidValue, fMaxValidValue,
                   fEncoding, fOpenAutomatically, fAttribution,
                   fReopenRequired>>
    /\ UNCHANGED <<popVars, pipeVars, walkVars, mosaicVars, compVars, layerVars, gdalVars, spacingVars, windowVars>>

InitProperties ==
    PropertiesInit /\ PopulateIdle /\ PipelineIdle /\ WalkIdle /\ MosaicIdle /\ CompositeIdle /\ LayerIdle /\ GdalIdle /\ SpacingIdle /\ WindowIdle

NextProperties ==
    \/ \E value \in Encodings : setEncoding(value)
    \/ \E value \in BOOLEAN : setOffset(value)
    \/ \E value \in PropertyValues : setNoDataValue(value)
    \/ \E value \in PropertyValues : setMinValidValue(value)
    \/ \E value \in PropertyValues : setMaxValidValue(value)
    \/ \E value \in BOOLEAN : setOpenAutomatically(value)
    \/ \E value \in Attributions : setAttribution(value)
    \/ dirty

SpecProperties == InitProperties /\ [][NextProperties]_vars

\* ------------------------------------------------------------------ C31
\* thread t calls open(), or close(), in this step: the test of isOpen() is
\* made and the call either returns or goes for the lock
CallsOpen(t) ==
    /\ lThread[t].pc = "idle"
    /\ Returns(t, "status") \/ lThread'[t].pc = "open"
CallsClose(t) ==
    /\ lThread[t].pc = "idle"
    /\ Returns(t, "void") \/ lThread'[t].pc = "close"

\* nothing of the layer but the calling thread's own record changes
LayerUntouched(t) ==
    /\ UNCHANGED <<lKind, lOpenAutomatically, lWritingSupported,
                   lWritingRequested, lStatus, lShared, lExclusive, lRaster,
                   lClosed>>
    /\ \A u \in Threads \ {t} : lThread'[u] = lThread[u]

\* thread t enters openImplementation, or closeImplementation, in this step
EntersOpen(t) == lThread[t].pc # "opening" /\ lThread'[t].pc = "opening"
EntersClose(t) == lThread[t].pc # "closing" /\ lThread'[t].pc = "closing"

\* C31: an open() called on a layer that is open returns in that step with
\* the layer's status, without going on to openImplementation and with every
\* field of the layer as it was; a close() called on a layer that is not open
\* returns in that step without going on to closeImplementation and with the
\* status, whatever its message, and every other field as it was; and the two
\* implementations are only entered by a call that went for the lock.
C31_Idempotent ==
    [][\A t \in Threads :
        /\ CallsOpen(t) /\ isOpen =>
            /\ lThread'[t] = IdleThread(Returned("status", lStatus))
            /\ LayerUntouched(t)
        /\ CallsClose(t) /\ ~isOpen =>
            /\ lThread'[t] = IdleThread(Returned("void", lStatus))
            /\ LayerUntouched(t)
        /\ EntersOpen(t) => lThread[t].pc = "open"
        /\ EntersClose(t) => lThread[t].pc = "close"]_vars

\* a close() has returned from a layer whose open() had failed, the failure
\* still being the status, and an open() has returned from an open layer
C31_Witness ==
    \E t, u \in Threads :
        /\ lThread[t] = IdleThread(Returned("void",
                            LayerStatus(ResourceUnavailable, "open failed")))
        /\ lStatus = LayerStatus(ResourceUnavailable, "open failed")
        /\ lThread[u].pc = "idle"

\* an open() has returned the status of a layer that was open
C31_OpenOnOpen ==
    \E t \in Threads :
        /\ lThread[t] = IdleThread(Returned("status", LayerStatus(Status_OK, "")))
        /\ isOpen

\* a close() has returned from a disabled layer, still disabled
C31_CloseOnDisabled ==
    \E t \in Threads :
        /\ lThread[t] = IdleThread(Returned("void", ConstructedStatus(FALSE)))
        /\ lStatus = ConstructedStatus(FALSE)

\* ------------------------------------------------------------------ C32
\* a property of the layer is set in this step
PropertySet ==
    \/ \E value \in Encodings : setEncoding(value)
    \/ \E value \in BOOLEAN : setOffset(value) \/ setOpenAutomatically(value)
    \/ \E value \in PropertyValues :
        setNoDataValue(value) \/ setMinValidValue(value) \/ setMaxValidValue(value)
    \/ \E value \in Attributions : setAttribution(value)

\* C32: every call of setOffset, setNoDataValue, setMinValidValue,
\* setMaxValidValue, setEncoding, setOpenAutomatically or setAttribution
\* leaves the revision counter larger than it was, and no operation makes
\* the revision counter smaller.
C32_RevisionBumped ==
    /\ [][PropertySet => fRevision' > fRevision]_vars
    /\ [][fRevision' >= fRevision]_vars

\* what holds of the code: the revision never decreases, it changes only in
\* dirty(), and the setters of offset, no-data, minimum and maximum mark the
\* layer as needing a reopen
C32_RevisionOnlyByDirty ==
    /\ [][fRevision' >= fRevision]_vars
    /\ [][PropertySet => fRevision' = fRevision]_vars
    /\ [][fOffset' # fOffset \/ fNoDataValue' # fNoDataValue
          \/ fMinValidValue' # fMinValidValue
          \/ fMaxValidValue' # fMaxValidValue => fReopenRequired']_vars

\* ------------------------------------------------------------------ C33
\* the layer was closed by a close() and has not been opened since
ClosedByClose ==
    lClosed /\ lStatus = LayerStatus(ResourceUnavailable, "Layer closed")

\* C33: in every interleaving of tile requests with close(), no thread is
\* inside the driver's createHeightfieldImplementation or
\* createImageImplementation while the layer is closed: a request that found
\* the layer open before a close() completed does not call the driver after
\* it.
C33_DriverOnlyWhileOpen ==
    \A t \in Threads : lThread[t].pc = "producing" => ~ClosedByClose

\* what holds of the code: a request goes for the driver only if it found
\* the layer open when it made its test, and the driver never runs while a
\* close() holds the lock
C33_TestedBeforeLock ==
    /\ [][\A t \in Threads :
            lThread[t].pc = "idle" /\ lThread'[t].pc = "produce" => isOpen]_vars
    /\ [](\A t \in Threads :
            lThread[t].pc = "producing" =>
                \A u \in Threads : lThread[u].pc # "closing")

\* ------------------------------------------------------------------ C34
\* C34: when several threads call open() on a layer that is not open, only
\* one of them runs openImplementation: a caller that gets the lock after
\* another caller's open() has opened the layer returns the status and does
\* not enter openImplementation on the open layer.
C34_OpenedOnce ==
    [][\A t \in Threads : EntersOpen(t) => ~isOpen]_vars

\* what holds of the code: openImplementation is entered only by a caller
\* that found the layer not open when it made its test, one caller at a
\* time
C34_OneAtATime ==
    /\ [][\A t \in Threads :
            lThread[t].pc = "idle" /\ lThread'[t].pc = "open" => ~isOpen]_vars
    /\ [](\A t, u \in Threads :
            lThread[t].pc = "opening" /\ lThread[u].pc = "opening" => t = u)

\* ------------------------------------------------------------------ C35
\* C35: isOpen() is true only once an openImplementation has returned with
\* success: while a thread is inside the openImplementation of its open(),
\* whether that call will succeed or fail, the layer is not open to any
\* thread.
C35_OpenOnlyAfterSuccess ==
    (\E t \in Threads : lThread[t].pc = "opening") => ~isOpen

\* what holds of the code: once open() has returned, the layer is open
\* exactly when openImplementation succeeded, and during openImplementation
\* the status is OK
C35_OptimisticStatus ==
    /\ [](\A t \in Threads :
            lThread[t].pc = "opening" => lStatus = LayerStatus(Status_OK, ""))
    /\ [][\A t \in Threads :
            LeavesOpen(t) =>
                (isOpen' <=> lThread'[t].ret.status.code = Status_OK)]_vars

\* ------------------------------------------------------------------ C36
\* the key has an entry in the dependency cache whose raster still exists
Cached(k) == cCache[k] # 0 /\ cRasters[cCache[k]].state = "live"

\* the rasters a composite depends on
DependenciesOf(composite) ==
    {composite.dependencies[k] : k \in 1 .. Len(composite.dependencies)}

\* the rasters the driver produced in this step
Fetched == {i \in RasterIds : cRasters[i].state = "unborn"
                              /\ cRasters'[i].state = "live"}

\* assembleImage builds composite m from the source keys `keys` in this step
ImageAssembled(m, keys) ==
    /\ cKind = "image"
    /\ cComposites[m].state = "unborn"
    /\ AssemblerBuilds(m, keys)

C36_RefetchedAfterRelease ==
    /\ cKind = "image"
    /\ \E k \in CacheKeys, i \in RasterIds :
        /\ Cached(k) /\ i # cCache[k]
        /\ cRasters[i].state = "released"

\* ======================================================================
\* A GDALElevationLayer called by several threads: open, close and tile
\* requests, with the per-thread GDAL::Driver handles of _drivers.
\* ======================================================================
GdalInit ==
    /\ gStatus = ConstructedStatus(TRUE)
    /\ gShared = {} /\ gExclusive = 0
    /\ gThread = [t \in Threads |-> IdleThread(NothingReturned)]
    /\ gHandle = [t \in Threads |-> NoHandle]

\* Layer::isOpen on this layer
GdalIsOpen == gStatus.code = Status_OK

\* openOnThisThread, GDALElevationLayer.cpp lines 21-55: the handle after
\* driver.open succeeded or failed; a failed open leaves it as it was
openOnThisThread(handle, opened) ==
    IF opened THEN Handle(TRUE, FALSE) ELSE handle

\* a close() has returned: every handle that is open was opened before it
AfterClose(handles) ==
    [t \in DOMAIN handles |->
        IF handles[t].open THEN Handle(TRUE, TRUE) ELSE handles[t]]

\* Layer::open up to its lock, Layer.cpp lines 109-117
GdalOpenCall(t) ==
    /\ gThread[t].pc = "idle"
    /\ gThread' = [gThread EXCEPT ![t] =
           IF GdalIsOpen THEN IdleThread(Returned("status", gStatus))
           ELSE [pc |-> "open", ret |-> NothingReturned]]
    /\ UNCHANGED <<gStatus, gShared, gExclusive, gHandle>>
    /\ UNCHANGED <<popVars, pipeVars, walkVars, mosaicVars, compVars, layerVars, propVars, spacingVars, windowVars>>

\* Layer.cpp lines 118-121: the exclusive lock is taken and the status set to
\* OK
GdalOpenLock(t) ==
    /\ gThread[t].pc = "open"
    /\ gExclusive = 0 /\ gShared = {}
    /\ gExclusive' = t
    /\ gStatus' = LayerStatus(Status_OK, "")
    /\ gThread' = [gThread EXCEPT ![t].pc = "opening"]
    /\ UNCHANGED <<gShared, gHandle>>
    /\ UNCHANGED <<popVars, pipeVars, walkVars, mosaicVars, compVars, layerVars, propVars, spacingVars, windowVars>>

\* GDALElevationLayer::openImplementation, GDALElevationLayer.cpp lines
\* 103-134, and the return of Layer::open, Layer.cpp lines 123-126: the
\* calling thread's handle is opened; the result becomes the status
GdalOpenImplementation(t) ==
    /\ gThread[t].pc = "opening"
    /\ \E opened \in BOOLEAN :
        LET result == IF opened THEN LayerStatus(Status_OK, "")
                      ELSE LayerStatus(ResourceUnavailable, "open failed")
        IN  /\ gHandle' = [gHandle EXCEPT ![t] = openOnThisThread(@, opened)]
            /\ gStatus' = result
            /\ gThread' = [gThread EXCEPT ![t] =
                              IdleThread(Returned("opened", result))]
    /\ gExclusive' = 0
    /\ UNCHANGED gShared
    /\ UNCHANGED <<popVars, pipeVars, walkVars, mosaicVars, compVars, layerVars, propVars, spacingVars, windowVars>>

\* Layer::close up to its lock, Layer.cpp lines 128-132; a close() that finds
\* the layer not open returns
GdalCloseCall(t) ==
    /\ gThread[t].pc = "idle"
    /\ IF GdalIsOpen
       THEN /\ gThread' = [gThread EXCEPT ![t] =
                              [pc |-> "close", ret |-> NothingReturned]]
            /\ gHandle' = gHandle
       ELSE /\ gThread' = [gThread EXCEPT ![t] =
                              IdleThread(Returned("void", gStatus))]
            /\ gHandle' = AfterClose(gHandle)
    /\ UNCHANGED <<gStatus, gShared, gExclusive>>
    /\ UNCHANGED <<popVars, pipeVars, walkVars, mosaicVars, compVars, layerVars, propVars, spacingVars, windowVars>>

\* Layer.cpp line 133
GdalCloseLock(t) ==
    /\ gThread[t].pc = "close"
    /\ gExclusive = 0 /\ gShared = {}
    /\ gExclusive' = t
    /\ gThread' = [gThread EXCEPT ![t].pc = "closing"]
    /\ UNCHANGED <<gStatus, gShared, gHandle>>
    /\ UNCHANGED <<popVars, pipeVars, walkVars, mosaicVars, compVars, layerVars, propVars, spacingVars, windowVars>>

\* GDALElevationLayer::closeImplementation, GDALElevationLayer.cpp lines
\* 136-143, and the rest of Layer::close, Layer.cpp lines 134-137:
\* _drivers.clear() drops every thread's handle
GdalCloseImplementation(t) ==
    /\ gThread[t].pc = "closing"
    /\ gHandle' = AfterClose([u \in Threads |-> NoHandle])
    /\ gStatus' = LayerStatus(ResourceUnavailable, "Layer closed")
    /\ gThread' = [gThread EXCEPT ![t] =
                      IdleThread(Returned("closed", gStatus'))]
    /\ gExclusive' = 0
    /\ UNCHANGED gShared
    /\ UNCHANGED <<popVars, pipeVars, walkVars, mosaicVars, compVars, layerVars, propVars, spacingVars, windowVars>>

\* ElevationLayer::createHeightfield and createHeightfieldInKeyProfile up to
\* the lock, ElevationLayer.cpp lines 404-411 and 436-440
GdalRequest(t) ==
    /\ gThread[t].pc = "idle"
    /\ gThread' = [gThread EXCEPT ![t] =
           IF GdalIsOpen THEN [pc |-> "produce", ret |-> NothingReturned]
           ELSE IdleThread(Returned("invalid", gStatus))]
    /\ UNCHANGED <<gStatus, gShared, gExclusive, gHandle>>
    /\ UNCHANGED <<popVars, pipeVars, walkVars, mosaicVars, compVars, layerVars, propVars, spacingVars, windowVars>>

\* ElevationLayer.cpp line 419: the shared lock is taken
GdalRequestLock(t) ==
    /\ gThread[t].pc = "produce"
    /\ gExclusive = 0
    /\ gShared' = gShared \cup {t}
    /\ gThread' = [gThread EXCEPT ![t].pc = "producing"]
    /\ UNCHANGED <<gStatus, gExclusive, gHandle>>
    /\ UNCHANGED <<popVars, pipeVars, walkVars, mosaicVars, compVars, layerVars, propVars, spacingVars, windowVars>>

\* GDALElevationLayer::createHeightfieldImplementation, GDALElevationLayer.cpp
\* lines 145-178, and the release of the lock, ElevationLayer.cpp lines
\* 420-425: a failed status is returned; otherwise the thread's handle is
\* opened if it is not open, and read
GdalCreateHeightfield(t) ==
    /\ gThread[t].pc = "producing"
    /\ IF ~GdalIsOpen
       THEN /\ gThread' = [gThread EXCEPT ![t] =
                              IdleThread(Returned("status", gStatus))]
            /\ gHandle' = gHandle
       ELSE \E opened, read \in BOOLEAN :
            LET driver == IF gHandle[t].open THEN gHandle[t]
                          ELSE openOnThisThread(gHandle[t], opened)
            IN  /\ gHandle' = [gHandle EXCEPT ![t] = driver]
                /\ gThread' = [gThread EXCEPT ![t] =
                       IdleThread(
                           IF driver.open /\ read
                           THEN Returned("raster", LayerStatus(Status_OK, ""))
                           ELSE Returned("failed",
                                    LayerStatus(ResourceUnavailable, "")))]
    /\ gShared' = gShared \ {t}
    /\ UNCHANGED <<gStatus, gExclusive>>
    /\ UNCHANGED <<popVars, pipeVars, walkVars, mosaicVars, compVars, layerVars, propVars, spacingVars, windowVars>>

InitGdal ==
    GdalInit /\ PopulateIdle /\ PipelineIdle /\ WalkIdle /\ MosaicIdle /\ CompositeIdle /\ LayerIdle /\ PropertiesIdle /\ SpacingIdle /\ WindowIdle

NextGdal ==
    \E t \in Threads :
        \/ GdalOpenCall(t)
        \/ GdalOpenLock(t)
        \/ GdalOpenImplementation(t)
        \/ GdalCloseCall(t)
        \/ GdalCloseLock(t)
        \/ GdalCloseImplementation(t)
        \/ GdalRequest(t)
        \/ GdalRequestLock(t)
        \/ GdalCreateHeightfield(t)

SpecGdal == InitGdal /\ [][NextGdal]_vars

\* ------------------------------------------------------------------ C37
\* thread t returns in this step from the call it was inside at `from`
GdalLeaves(t, from) == gThread[t].pc = from /\ gThread'[t].pc = "idle"

\* thread t's close() returns in this step, having run closeImplementation
\* or not
CloseReturns(t) ==
    \/ GdalLeaves(t, "closing")
    \/ /\ gThread[t].pc = "idle" /\ gThread'[t] # gThread[t]
       /\ gThread'[t].pc = "idle" /\ gThread'[t].ret.kind = "void"

\* a thread's handle is opened by that thread only, in openImplementation or
\* in a createHeightfieldImplementation call that finds it closed, and a call
\* that returns a raster leaves the thread with an open handle
OpenedLazily(t) ==
    /\ ~gHandle[t].open /\ gHandle'[t].open =>
        GdalLeaves(t, "producing") \/ GdalLeaves(t, "opening")
    /\ GdalLeaves(t, "producing") /\ gThread'[t].ret.kind = "raster" =>
        gHandle'[t].open

\* a call on a layer whose status is failed returns that status and leaves
\* every handle as it was
FailedStatusReturned(t) ==
    GdalLeaves(t, "producing") /\ ~GdalIsOpen =>
        /\ gThread'[t].ret = Returned("status", gStatus)
        /\ gHandle' = gHandle

\* a call whose handle could not be opened returns ResourceUnavailable
UnopenedReturned(t) ==
    GdalLeaves(t, "producing") /\ GdalIsOpen /\ ~gHandle'[t].open =>
        gThread'[t].ret.status.code = ResourceUnavailable

\* C37: a thread's handle is opened by that thread, at the latest on its
\* first createHeightfieldImplementation call; a call on a layer whose status
\* is failed returns that status without touching a handle; a call whose
\* handle cannot be opened returns ResourceUnavailable; when a close()
\* returns no thread's handle is open, and no tile request reads a handle
\* that was opened before a close() returned.
C37_PerThreadHandles ==
    [][\A t \in Threads :
        /\ OpenedLazily(t)
        /\ FailedStatusReturned(t)
        /\ UnopenedReturned(t)
        /\ CloseReturns(t) => \A u \in Threads : ~gHandle'[u].open
        /\ GdalLeaves(t, "producing") /\ gThread'[t].ret.kind = "raster" =>
            ~gHandle'[t].beforeClose]_vars

\* what holds of the code: the first three parts, and a close() that found
\* the layer open leaves no handle open
C37_HandlesOfOpenLayer ==
    [][\A t \in Threads :
        /\ OpenedLazily(t)
        /\ FailedStatusReturned(t)
        /\ UnopenedReturned(t)
        /\ GdalLeaves(t, "closing") => \A u \in Threads : ~gHandle'[u].open]_vars

\* a thread that did not open the layer has opened its handle in a tile
\* request
C37_LazyOpen ==
    \E t, u \in Threads :
        /\ t # u
        /\ gThread[t] = IdleThread(Returned("opened", LayerStatus(Status_OK, "")))
        /\ gThread[u].ret.kind = "raster" /\ gHandle[u].open

\* a tile request that tested the status before a close() has returned the
\* failed status
C37_StatusReturned ==
    \E t \in Threads :
        gThread[t] = IdleThread(Returned("status",
                          LayerStatus(ResourceUnavailable, "Layer closed")))

\* ======================================================================
\* The sample spacing that populateHeightfield and assembleImage compute
\* from the size of a raster, over the sizes on both sides of the limits of
\* validateHeightfield.
\* ======================================================================
\* the sizes a raster comes with
Sizes == 0 .. MaxSize \cup {MaxDimension, MaxDimension + 1}

\* the widths and heights of a key's extent
ExtentSizes == {0, MaxDimension}

\* the result of a floating-point division by zero with a dividend above zero
Infinity == FLT_MAX + 1

\* (double)(n - 1) for an unsigned n: 0 - 1 wraps to the largest unsigned,
\* for which the largest integer of the checker stands
CellsBetween(n) == IF n = 0 THEN 2147483647 ELSE n - 1

\* extent / (double)(n - 1), in units of 1/MaxDimension: a division by zero
\* yields infinity, or NaN when the dividend is zero as well
Spacing(extent, n) ==
    LET divisor == CellsBetween(n)
    IN  Quotient(divisor,
                 IF divisor # 0 THEN (extent * MaxDimension) \div divisor
                 ELSE IF extent = 0 THEN NaN ELSE Infinity)

SpacingInit ==
    /\ sWidth \in Sizes /\ sHeight \in Sizes
    /\ sExtent \in [width : ExtentSizes, height : ExtentSizes]
    /\ sPc = "new"
    /\ sDx = NotComputed /\ sDy = NotComputed

\* the raster is validated, ElevationLayer.cpp lines 21-42
SpacingValidate ==
    /\ sPc = "new"
    /\ sPc' = IF validateHeightfield([valid |-> TRUE, width |-> sWidth,
                                      height |-> sHeight])
              THEN "valid" ELSE "rejected"
    /\ UNCHANGED <<sWidth, sHeight, sExtent, sDx, sDy>>
    /\ UNCHANGED <<popVars, pipeVars, walkVars, mosaicVars, compVars, layerVars, propVars, gdalVars, windowVars>>

\* populateHeightfield with the raster as its target, ElevationLayer.cpp
\* lines 705-711
PopulateSpacing ==
    /\ sPc = "valid"
    /\ sDx' = Spacing(sExtent.width, sWidth)
    /\ sDy' = Spacing(sExtent.height, sHeight)
    /\ sPc' = "populateHeightfield"
    /\ UNCHANGED <<sWidth, sHeight, sExtent>>
    /\ UNCHANGED <<popVars, pipeVars, walkVars, mosaicVars, compVars, layerVars, propVars, gdalVars, windowVars>>

\* assembleImage with a mosaic of the raster's size, ImageLayer.cpp lines
\* 306-309
AssembleSpacing ==
    /\ sPc = "valid"
    /\ sDx' = Spacing(sExtent.width, sWidth)
    /\ sDy' = Spacing(sExtent.height, sHeight)
    /\ sPc' = "assembleImage"
    /\ UNCHANGED <<sWidth, sHeight, sExtent>>
    /\ UNCHANGED <<popVars, pipeVars, walkVars, mosaicVars, compVars, layerVars, propVars, gdalVars, windowVars>>

InitSpacing ==
    SpacingInit /\ PopulateIdle /\ PipelineIdle /\ WalkIdle /\ MosaicIdle /\ CompositeIdle /\ LayerIdle /\ PropertiesIdle /\ GdalIdle /\ WindowIdle

NextSpacing ==
    \/ SpacingValidate
    \/ PopulateSpacing
    \/ AssembleSpacing

SpecSpacing == InitSpacing /\ [][NextSpacing]_vars

\* ------------------------------------------------------------------ C38
\* the spacing of the raster has been computed
Spaced == sPc = "populateHeightfield" \/ sPc = "assembleImage"

\* C38: for every raster whose width and height pass validateHeightfield,
\* 1 included, neither populateHeightfield nor assembleImage divides by zero
\* when it computes the sample spacing from the raster's size.
C38_NoDivisionByZero ==
    Spaced => sDx.divisor # 0 /\ sDy.divisor # 0

\* what holds of the code: the spacing is computed for the validated sizes
\* only, a dimension of 2 to 1024 is divided by a divisor above zero, and a
\* dimension of 1 is divided by zero and yields infinity or NaN
C38_DivisorOneLess ==
    Spaced =>
        /\ sWidth \in 1 .. MaxDimension /\ sHeight \in 1 .. MaxDimension
        /\ sDx.divisor = sWidth - 1 /\ sDy.divisor = sHeight - 1
        /\ sWidth > 1 => sDx.quotient = (sExtent.width * MaxDimension) \div (sWidth - 1)
        /\ sWidth = 1 => sDx.quotient \in {Infinity, NaN}
        /\ sHeight = 1 => sDy.quotient \in {Infinity, NaN}

\* ======================================================================
\* GDAL::Driver::createImage up to its read: the early returns and the read
\* window of the tile's intersection with the dataset.
\* ======================================================================
\* _maxDataLevel of the driver
maxDataLevel == 0

\* the pixel coordinates of an intersection along one axis of a dataset of
\* `size` pixels, after floor and ceil (lines 1080-1083): the ceiling may
\* lie one pixel past the dataset
PixelSpans(size) ==
    {span \in [min : 0 .. size, max : 0 .. size + 1] : span.min <= span.max}

WindowInit ==
    /\ dLevel \in {maxDataLevel, maxDataLevel + 1}
    /\ dCanceled \in BOOLEAN
    /\ dIntersects \in BOOLEAN
    /\ dRaster \in [width : 1 .. DatasetSize, height : 1 .. DatasetSize]
    /\ \E x \in PixelSpans(dRaster.width), y \in PixelSpans(dRaster.height) :
        dSource = [min_x |-> x.min, min_y |-> y.min,
                   max_x |-> x.max, max_y |-> y.max]
    /\ dTarget \in {[width |-> 0, height |-> 1], [width |-> 1, height |-> 0],
                    [width |-> 1, height |-> 1]}
    /\ dPc = "call"
    /\ dWindow = Window(0, 0, 0, 0)
    /\ dResult = "none"

\* lines 1094-1099: the clamp of the read window
Clamp(window, raster) ==
    [window EXCEPT
        !.width = IF window.off_x + window.width > raster.width
                  THEN raster.width - window.off_x ELSE @,
        !.height = IF window.off_y + window.height > raster.height
                   THEN raster.height - window.off_x ELSE @]

\* lines 1022-1049: the conditions of the early returns
NothingToRead == dLevel > maxDataLevel \/ dCanceled \/ ~dIntersects

\* lines 1022-1049: the early returns
EarlyReturn ==
    /\ dPc = "call"
    /\ NothingToRead
    /\ dPc' = "returned"
    /\ dResult' = "empty"
    /\ UNCHANGED <<dLevel, dCanceled, dIntersects, dRaster, dSource, dTarget,
                   dWindow>>
    /\ UNCHANGED <<popVars, pipeVars, walkVars, mosaicVars, compVars, layerVars, propVars, gdalVars, spacingVars>>

\* lines 1085-1099: the read window and its clamp
ReadWindow ==
    /\ dPc = "call"
    /\ ~NothingToRead
    /\ dWindow' = Clamp(Window(dSource.min_x, dSource.min_y,
                               dSource.max_x - dSource.min_x,
                               dSource.max_y - dSource.min_y), dRaster)
    /\ dPc' = "window"
    /\ UNCHANGED <<dLevel, dCanceled, dIntersects, dRaster, dSource, dTarget,
                   dResult>>
    /\ UNCHANGED <<popVars, pipeVars, walkVars, mosaicVars, compVars, layerVars, propVars, gdalVars, spacingVars>>

\* lines 1126-1130 and the read that follows
ReadOrReturn ==
    /\ dPc = "window"
    /\ dResult' = IF dWindow.width <= 0 \/ dWindow.height <= 0
                     \/ dTarget.width <= 0 \/ dTarget.height <= 0
                  THEN "empty" ELSE "read"
    /\ dPc' = "returned"
    /\ UNCHANGED <<dLevel, dCanceled, dIntersects, dRaster, dSource, dTarget,
                   dWindow>>
    /\ UNCHANGED <<popVars, pipeVars, walkVars, mosaicVars, compVars, layerVars, propVars, gdalVars, spacingVars>>

InitWindow ==
    WindowInit /\ PopulateIdle /\ PipelineIdle /\ WalkIdle /\ MosaicIdle /\ CompositeIdle /\ LayerIdle /\ PropertiesIdle /\ GdalIdle /\ SpacingIdle

NextWindow ==
    \/ EarlyReturn
    \/ ReadWindow
    \/ ReadOrReturn

SpecWindow == InitWindow /\ [][NextWindow]_vars

\* ------------------------------------------------------------------ C39
\* the window lies inside the dataset on its far sides
InsideDataset(window, raster) ==
    /\ window.off_x + window.width <= raster.width
    /\ window.off_y + window.height <= raster.height

\* the read window has been computed and clamped
Clamped == dPc # "call" /\ ~NothingToRead

\* C39: in GDAL::Driver::createImage the read window, once clamped, ends
\* inside the dataset in both directions, for every intersection of tile and
\* dataset; and the driver returns an empty image without reading when the
\* key is beyond maxDataLevel, the request is cancelled, the intersection is
\* empty, or the clamped window has a width or height that is not positive.
C39_WindowInside ==
    /\ Clamped => InsideDataset(dWindow, dRaster)
    /\ dPc = "returned" =>
        /\ NothingToRead => dResult = "empty"
        /\ dWindow.width <= 0 \/ dWindow.height <= 0 => dResult = "empty"

\* what holds of the code: the clamped window ends inside the dataset in x,
\* and in y whenever off_x is not below off_y; and the empty returns
C39_WidthInside ==
    /\ Clamped =>
        /\ dWindow.off_x + dWindow.width <= dRaster.width
        /\ dWindow.off_x >= dWindow.off_y =>
            dWindow.off_y + dWindow.height <= dRaster.height
    /\ dPc = "returned" =>
        /\ NothingToRead => dResult = "empty"
        /\ dWindow.width <= 0 \/ dWindow.height <= 0 => dResult = "empty"

\* a window that reaches past the last row of the dataset is read
C39_ReadPastDataset ==
    /\ dResult = "read"
    /\ dWindow.off_y + dWindow.height > dRaster.height

====
